---------------------------- MODULE Spec2Model ----------------------------
(***************************************************************************)
(* A model of the vector renderer of pixel-pop                             *)
(* (src/src/components/canvas/SVGRenderer.jsx): the process-wide shape     *)
(* path cache and createShapePath, the viewport state kept by the          *)
(* updateViewport effect, the visibleArea window and the layered element   *)
(* list built by renderPixels.                                             *)
(*                                                                         *)
(* Numbers.  Lengths handed to createShapePath are fixed-point numbers in  *)
(* thousandths of a unit (1000 is one unit), so that size / 2,             *)
(* size * percentage / 100, gridGap / 2 and the circle's cx - 0.001 are    *)
(* exact.  The viewport's width, height and scale are quotients of         *)
(* measured lengths and are kept as reduced fractions <<num, den>>.        *)
(***************************************************************************)
EXTENDS Integers, Sequences, FiniteSets, TLC

VARIABLES
    pathCache,      \* the module-level Map: a sequence of [key, path] in insertion order
    ret,            \* the latest createShapePath call: its arguments, result and hit flag
    age,            \* history: for each key in the cache, the misses since it was inserted
    gridWidth,      \* props of SVGRenderer
    gridHeight,
    pixelSize,
    gridGap,
    pixelData,
    pixelShape,
    cornerRadius,
    customShape,
    glowEnabled,
    bulbEnabled,
    viewportState,  \* useState: [left, top, width, height, scale]
    container,      \* the DOM: what getBoundingClientRect and the scroll offsets give
    observer,       \* the ResizeObserver: "off" before the effect ran, "idle", or "notify"
    rafRef,         \* rafRef.current: 0 for null, else the id of the latest request
    frames,         \* the animation-frame callbacks requested and not yet run or cancelled
    measured,       \* history: the measurement read by the latest updateViewport run
    elements,       \* the element list renderPixels returned at the latest render
    multiTouchRef,  \* multiTouchRef.current
    requested,      \* history: the latest requestAnimationFrame request, its callback and event
    delivered,      \* history: the callbacks the latest delivery handed to the parent, in order
    exportClosure,  \* what the memoized performExport closes over and its dependencies miss
    exported,       \* history: the latest export, what it read and what it drew
    gridAfter,      \* history: the contents of the pixel grid after the latest render or export
    rendererType,   \* App state: the backend in use, "svg" or "canvas"
    showGrid,       \* App state and prop of SVGRenderer: the grid overlay is on
    bulbSettings,   \* App state and prop of SVGRenderer: the fields of the bulb configuration
    colorHistory,   \* App state: the recently used colours, newest first
    importModal,    \* App state: the import modal is open, and the image url it holds
    imported,       \* the handleImageImport call in progress or finished last, and what it did
    lastActionType, \* App state: "" for null, "draw" or "grid_change"
    isInitializedRef, \* isInitializedRef.current
    history,        \* the entries handed to pushHistory, in order
    selectionArea,  \* App state: the selected rectangle, or NoSelection for null
    copyBuffer,     \* App state: the copied block, or NoBuffer for null
    activeColor,    \* tool state: the colour in use
    hasDrawn,       \* App state: something was drawn or imported
    pending,        \* the state updates queued since the latest render, in order
    operations,     \* history: the draw starts and grid-edge operations carried out
    keyed,          \* history: the latest keydown and the App's state when it arrived
    touchTimeoutRef, \* touchTimeoutRef.current: the touchstart whose timeout is pending
    touches,        \* the fingers on the surface
    gesture         \* history: the touch gesture under way and what it delivered

vars == <<pathCache, ret, age, gridWidth, gridHeight, pixelSize, gridGap, pixelData,
          pixelShape, cornerRadius, customShape, glowEnabled, bulbEnabled,
          viewportState, container, observer, rafRef, frames, measured,
          elements, multiTouchRef, requested, delivered, exportClosure, exported,
          gridAfter, rendererType, showGrid, bulbSettings, colorHistory, importModal,
          imported, lastActionType, isInitializedRef, history, selectionArea,
          copyBuffer, activeColor, hasDrawn, pending, operations, keyed,
          touchTimeoutRef, touches, gesture>>

cacheVars == <<pathCache, ret, age>>
propVars == <<gridWidth, gridHeight, pixelSize, gridGap, pixelData, pixelShape,
              cornerRadius, customShape, glowEnabled, bulbEnabled>>
viewVars == <<viewportState, container, observer, rafRef, frames, measured>>
inputVars == <<multiTouchRef, requested, delivered>>
appVars == <<rendererType, showGrid, bulbSettings, colorHistory, importModal, imported>>
editVars == <<lastActionType, isInitializedRef, history, selectionArea, copyBuffer,
              activeColor, hasDrawn, pending, operations, keyed>>
touchVars == <<touchTimeoutRef, touches, gesture>>

(***************************************************************************)
(* Bounds of the model.                                                    *)
(***************************************************************************)
\* The capacity of pathCache.  The source's capacity is 1000 (line 579); the model
\* keeps the same code with a capacity small enough to overflow within the bounds.
PathCacheLimit == 3

Min(a, b) == IF a <= b THEN a ELSE b
Max(a, b) == IF a >= b THEN a ELSE b

(***************************************************************************)
(* createShapePath: the cache key and the path computation.                *)
(***************************************************************************)
NoCornerRadius ==
    [enabled |-> FALSE, topLeft |-> 0, topRight |-> 0, bottomLeft |-> 0, bottomRight |-> 0]

NoCustomShape == [path |-> "", viewBox |-> "0 0 100 100"]

\* JSON.stringify(cornerRadius): the values of the object's properties in their order.
JsonCornerRadius(cr) ==
    <<cr.enabled, cr.topLeft, cr.topRight, cr.bottomLeft, cr.bottomRight>>

\* `${x}_${y}_${size}_${shape}_${JSON.stringify(cornerRadius)}_${customShape?.path || ''}`.
\* The first five fields hold no "_" of their own, so the joined string determines
\* the six fields and is modelled as their tuple.
CacheKeyNoCustomPath(x, y, size, shape, cr, cs) ==
    <<x, y, size, shape, JsonCornerRadius(cr), "">>

CacheKey(x, y, size, shape, cr, cs) ==
    <<x, y, size, shape, JsonCornerRadius(cr), cs.path>>

\* Math.min((size * percentage) / 100, size / 2)
CornerRadiusNoCap(size, percentage) == (size * percentage) \div 100

CornerRadiusOfHalf(size, percentage) ==
    Min(((size \div 2) * percentage) \div 100, size \div 2)

CornerRadiusPx(size, percentage) == Min((size * percentage) \div 100, size \div 2)

\* One command of a path string: its letter (with any flags) and its numbers.  A path
\* is the sequence of its commands; a caller-supplied path string is kept whole, as
\* one opaque command.
Seg(cmd, args) == [cmd |-> cmd, args |-> args]

Verbatim(str) == <<Seg(str, <<>>)>>

RoundedRectPathOneRadius(x, y, size, cr) ==
    LET tl == CornerRadiusPx(size, cr.topLeft)
    IN  <<Seg("M", <<x + tl, y>>),
          Seg("H", <<x + size - tl>>),
          Seg("Q", <<x + size, y, x + size, y + tl>>),
          Seg("V", <<y + size - tl>>),
          Seg("Q", <<x + size, y + size, x + size - tl, y + size>>),
          Seg("H", <<x + tl>>),
          Seg("Q", <<x, y + size, x, y + size - tl>>),
          Seg("V", <<y + tl>>),
          Seg("Q", <<x, y, x + tl, y>>),
          Seg("Z", <<>>)>>

RoundedRectPath(x, y, size, cr) ==
    LET tl == CornerRadiusPx(size, cr.topLeft)
        tr == CornerRadiusPx(size, cr.topRight)
        bl == CornerRadiusPx(size, cr.bottomLeft)
        br == CornerRadiusPx(size, cr.bottomRight)
    IN  <<Seg("M", <<x + tl, y>>),
          Seg("H", <<x + size - tr>>),
          Seg("Q", <<x + size, y, x + size, y + tr>>),
          Seg("V", <<y + size - br>>),
          Seg("Q", <<x + size, y + size, x + size - br, y + size>>),
          Seg("H", <<x + bl>>),
          Seg("Q", <<x, y + size, x, y + size - bl>>),
          Seg("V", <<y + tl>>),
          Seg("Q", <<x, y, x + tl, y>>),
          Seg("Z", <<>>)>>

RectPathHalfHeight(x, y, size) ==
    <<Seg("M", <<x, y>>), Seg("H", <<x + size>>), Seg("V", <<y + size \div 2>>),
      Seg("H", <<x>>), Seg("Z", <<>>)>>

RectPath(x, y, size) ==
    <<Seg("M", <<x, y>>), Seg("H", <<x + size>>), Seg("V", <<y + size>>),
      Seg("H", <<x>>), Seg("Z", <<>>)>>

CirclePathWholeSize(x, y, size) ==
    LET radius == size
        cx == x + radius
    IN  <<Seg("M", <<cx, y>>), Seg("A 0 1,1", <<radius, radius, cx - 1, y>>),
          Seg("Z", <<>>)>>

CirclePath(x, y, size) ==
    LET radius == size \div 2
        cx == x + radius
    IN  <<Seg("M", <<cx, y>>), Seg("A 0 1,1", <<radius, radius, cx - 1, y>>),
          Seg("Z", <<>>)>>

DiamondPath(x, y, size) ==
    LET mid == size \div 2
    IN  <<Seg("M", <<x + mid, y>>), Seg("L", <<x + size, y + mid>>),
          Seg("L", <<x + mid, y + size>>), Seg("L", <<x, y + mid>>), Seg("Z", <<>>)>>

TrianglePath(x, y, size) ==
    <<Seg("M", <<x + size \div 2, y>>), Seg("L", <<x + size, y + size>>),
      Seg("L", <<x, y + size>>), Seg("Z", <<>>)>>

\* Math.cos and Math.sin of i * Math.PI / 3, rounded to thousandths.
Cos60 == <<1000, 500, -500, -1000, -500, 500>>
Sin60 == <<0, 866, 866, 0, -866, -866>>

HexagonPath(x, y, size) ==
    LET radius == size \div 2
        cx == x + radius
        cy == y + radius
        px(i) == cx + (radius * Cos60[i + 1]) \div 1000
        py(i) == cy + (radius * Sin60[i + 1]) \div 1000
    IN  <<Seg("M", <<px(0), py(0)>>)>> \o
        [i \in 1..5 |-> Seg("L", <<px(i), py(i)>>)] \o
        <<Seg("Z", <<>>)>>

\* Lines 502-573: the path of a miss.
ComputePathNoCustom(x, y, size, shape, cr, cs) ==
    CASE shape = "circle" -> CirclePath(x, y, size)
      [] shape = "diamond" -> DiamondPath(x, y, size)
      [] shape = "triangle" -> TrianglePath(x, y, size)
      [] shape = "hexagon" -> HexagonPath(x, y, size)
      [] OTHER -> IF cr.enabled THEN RoundedRectPath(x, y, size, cr)
                  ELSE RectPath(x, y, size)

ComputePath(x, y, size, shape, cr, cs) ==
    IF shape = "custom" /\ cs.path # "" THEN Verbatim(cs.path)
    ELSE CASE shape = "circle" -> CirclePath(x, y, size)
           [] shape = "diamond" -> DiamondPath(x, y, size)
           [] shape = "triangle" -> TrianglePath(x, y, size)
           [] shape = "hexagon" -> HexagonPath(x, y, size)
           [] OTHER -> IF cr.enabled THEN RoundedRectPath(x, y, size, cr)
                       ELSE RectPath(x, y, size)

(***************************************************************************)
(* The Map pathCache: has, get, set, size, keys().next().value, delete.    *)
(***************************************************************************)
MapHas(m, k) == \E i \in 1..Len(m) : m[i].key = k

MapGet(m, k) == m[CHOOSE i \in 1..Len(m) : m[i].key = k].path

\* Map.set keeps the position of a key that is present and appends a new one.
MapSet(m, k, p) ==
    IF MapHas(m, k)
    THEN [i \in 1..Len(m) |-> IF m[i].key = k THEN [key |-> k, path |-> p] ELSE m[i]]
    ELSE Append(m, [key |-> k, path |-> p])

MapKeys(m) == {m[i].key : i \in 1..Len(m)}

\* Lines 579-583: delete the first key of the iteration order when over capacity.
EvictNewest(m) == IF Len(m) > PathCacheLimit THEN SubSeq(m, 1, Len(m) - 1) ELSE m

EvictNever(m) == m

Evict(m) == IF Len(m) > PathCacheLimit THEN Tail(m) ELSE m

\* Lines 492-586.  The result: the cache afterwards, the path returned, hit or miss.
createShapePathMoveOnHit(m, x, y, size, shape, cr, cs) ==
    LET cacheKey == CacheKey(x, y, size, shape, cr, cs)
    IN  IF MapHas(m, cacheKey)
        THEN [cache |-> Append(SelectSeq(m, LAMBDA e : e.key # cacheKey),
                               [key |-> cacheKey, path |-> MapGet(m, cacheKey)]),
              path |-> MapGet(m, cacheKey), hit |-> TRUE, key |-> cacheKey]
        ELSE LET path == ComputePath(x, y, size, shape, cr, cs)
             IN  [cache |-> Evict(MapSet(m, cacheKey, path)),
                  path |-> path, hit |-> FALSE, key |-> cacheKey]

createShapePath(m, x, y, size, shape, cr, cs) ==
    LET cacheKey == CacheKey(x, y, size, shape, cr, cs)
    IN  IF MapHas(m, cacheKey)
        THEN [cache |-> m, path |-> MapGet(m, cacheKey), hit |-> TRUE, key |-> cacheKey]
        ELSE LET path == ComputePath(x, y, size, shape, cr, cs)
             IN  [cache |-> Evict(MapSet(m, cacheKey, path)),
                  path |-> path, hit |-> FALSE, key |-> cacheKey]

(***************************************************************************)
(* Fractions: the quotients the viewport is computed with.  <<n, d>> is    *)
(* n / d with d > 0, reduced.                                              *)
(***************************************************************************)
Abs(a) == IF a < 0 THEN -a ELSE a

RECURSIVE Gcd(_, _)
Gcd(a, b) == IF b = 0 THEN a ELSE Gcd(b, a % b)

Frac(n, d) == LET g == Gcd(Abs(n), d) IN <<n \div g, d \div g>>

Whole(n) == <<n, 1>>

FracAdd(a, b) == Frac(a[1] * b[2] + b[1] * a[2], a[2] * b[2])

\* a / b for b > 0
FracDiv(a, b) == Frac(a[1] * b[2], a[2] * b[1])

FracLeq(a, b) == a[1] * b[2] <= b[1] * a[2]

\* Math.abs(a - b) > tn / td
AbsDiffExceeds(a, b, tn, td) ==
    Abs(a[1] * b[2] - b[1] * a[2]) * td > tn * a[2] * b[2]

\* Math.floor(a / c) and Math.ceil(a / c) for an integer c > 0
FloorDiv(a, c) == a[1] \div (a[2] * c)

CeilDiv(a, c) == -((-a[1]) \div (a[2] * c))

(***************************************************************************)
(* The viewport state and the visible area.                                *)
(***************************************************************************)
\* Lines 96-102: the initial useState value.
InitialViewport ==
    [left |-> Whole(0), top |-> Whole(0), width |-> Whole(1000), height |-> Whole(1000),
     scale |-> Whole(1)]

\* Lines 92-93
TotalWidthOf(gw, ps, gap) == gw * (ps + gap)

\* Lines 120-122 and 131-137: the viewport a measurement gives.  m holds the
\* container's rect.width and rect.height, the svg's svgRect.width and totalWidth.
ViewportOf(m) ==
    LET scale == Frac(m.svgWidth, m.totalWidth)
    IN  [left |-> Whole(0), top |-> Whole(0),
         width |-> FracDiv(Whole(m.width), scale),
         height |-> FracDiv(Whole(m.height), scale),
         scale |-> scale]

\* Lines 125-140: the updater handed to setViewportState.
updateViewportWidthOnly(prev, m) ==
    LET next == ViewportOf(m)
    IN  IF AbsDiffExceeds(prev.width, next.width, 1, 1) THEN next ELSE prev

updateViewport(prev, m) ==
    LET next == ViewportOf(m)
    IN  IF \/ AbsDiffExceeds(prev.width, next.width, 1, 1)
           \/ AbsDiffExceeds(prev.height, next.height, 1, 1)
           \/ AbsDiffExceeds(prev.scale, next.scale, 1, 100)
        THEN next
        ELSE prev

\* Line 429
buffer == 5

\* Lines 424-437.
visibleAreaSwapped(vs, ps, gap, gw, gh) ==
    LET cellSize == ps + gap
    IN  [startX |-> Max(0, FloorDiv(vs.left, cellSize) - buffer),
         endX |-> Min(gw, CeilDiv(FracAdd(vs.left, vs.height), cellSize) + buffer),
         startY |-> Max(0, FloorDiv(vs.top, cellSize) - buffer),
         endY |-> Min(gh, CeilDiv(FracAdd(vs.top, vs.width), cellSize) + buffer)]

visibleAreaUnclamped(vs, ps, gap, gw, gh) ==
    LET cellSize == ps + gap
    IN  [startX |-> FloorDiv(vs.left, cellSize) - buffer,
         endX |-> CeilDiv(FracAdd(vs.left, vs.width), cellSize) + buffer,
         startY |-> FloorDiv(vs.top, cellSize) - buffer,
         endY |-> CeilDiv(FracAdd(vs.top, vs.height), cellSize) + buffer]

visibleAreaFloorEnd(vs, ps, gap, gw, gh) ==
    LET cellSize == ps + gap
    IN  [startX |-> Max(0, FloorDiv(vs.left, cellSize) - buffer),
         endX |-> Min(gw, FloorDiv(FracAdd(vs.left, vs.width), cellSize) + buffer),
         startY |-> Max(0, FloorDiv(vs.top, cellSize) - buffer),
         endY |-> Min(gh, FloorDiv(FracAdd(vs.top, vs.height), cellSize) + buffer)]

visibleAreaOf(vs, ps, gap, gw, gh) ==
    LET cellSize == ps + gap
    IN  [startX |-> Max(0, FloorDiv(vs.left, cellSize) - buffer),
         endX |-> Min(gw, CeilDiv(FracAdd(vs.left, vs.width), cellSize) + buffer),
         startY |-> Max(0, FloorDiv(vs.top, cellSize) - buffer),
         endY |-> Min(gh, CeilDiv(FracAdd(vs.top, vs.height), cellSize) + buffer)]

\* The useMemo value at the current state.
visibleArea == visibleAreaOf(viewportState, pixelSize, gridGap, gridWidth, gridHeight)

totalWidth == TotalWidthOf(gridWidth, pixelSize, gridGap)

\* What updateViewport reads from the DOM now.
Measure(c, tw) ==
    [width |-> c.width, height |-> c.height, svgWidth |-> c.svgWidth, totalWidth |-> tw]

(***************************************************************************)
(* renderPixels: the element list of one render.                           *)
(***************************************************************************)
\* pixelData[y]?.[x], with undefined read as the empty colour.
ColorAt(pd, x, y) ==
    IF y \in DOMAIN pd
    THEN IF x \in DOMAIN pd[y] THEN pd[y][x] ELSE ""
    ELSE ""

\* pixelData[y]?.[x] is a read: the grid after it, which a write to the cell would change.
GridAfterClear(pd, x, y) ==
    IF y \in DOMAIN pd
    THEN IF x \in DOMAIN pd[y] THEN [pd EXCEPT ![y][x] = ""] ELSE pd
    ELSE pd

GridAfterRead(pd, x, y) == pd

\* Lines 610-611: the cells the two loops visit, in the order they visit them.
VisibleCellsInclusive(area) ==
    LET w == area.endX - area.startX + 1
        h == area.endY - area.startY
    IN  IF w <= 0 \/ h <= 0 THEN <<>>
        ELSE [i \in 1..(w * h) |->
                 [x |-> area.startX + ((i - 1) % w), y |-> area.startY + ((i - 1) \div w)]]

VisibleCells(area) ==
    LET w == area.endX - area.startX
        h == area.endY - area.startY
    IN  IF w <= 0 \/ h <= 0 THEN <<>>
        ELSE [i \in 1..(w * h) |->
                 [x |-> area.startX + ((i - 1) % w), y |-> area.startY + ((i - 1) \div w)]]

\* The outline of an element: the d of a Pixel path, or cx, cy, r of a native circle.
Outline(shape, xPos, yPos, size, pathData) ==
    IF shape = "circle"
    THEN <<Seg("circle", <<xPos + size \div 2, yPos + size \div 2, size \div 2>>)>>
    ELSE pathData

\* Lines 621-643
CrispElement(x, y, shape, xPos, yPos, size, pathData, color) ==
    [layer |-> "crisp", cell |-> <<x, y>>, origin |-> <<xPos, yPos>>,
     outline |-> Outline(shape, xPos, yPos, size, pathData),
     fill |-> color, filter |-> ""]

\* Lines 646-673
GlowElement(x, y, shape, xPos, yPos, size, pathData, color) ==
    [layer |-> "glow", cell |-> <<x, y>>, origin |-> <<xPos, yPos>>,
     outline |-> Outline(shape, xPos, yPos, size, pathData),
     fill |-> color, filter |-> "url(#glowFilter)"]

\* Lines 676-703
BulbElement(x, y, shape, xPos, yPos, size, pathData, color) ==
    [layer |-> "bulb", cell |-> <<x, y>>, origin |-> <<xPos, yPos>>,
     outline |-> Outline(shape, xPos, yPos, size, pathData),
     fill |-> "url(#bulbGradient)", filter |-> ""]

\* Line 708: the three arrays joined.
LayeredFillFirst(glowPaths, crispPaths, bulbPaths) == crispPaths \o glowPaths \o bulbPaths

Layered(glowPaths, crispPaths, bulbPaths) == glowPaths \o crispPaths \o bulbPaths

\* Lines 612-704: the body of the loops for one cell.  acc holds the three arrays, the
\* cache and the history of the createShapePath calls; p holds the props.
RenderCell(acc, c, p) ==
    LET color == ColorAt(acc.grid, c.x, c.y)
        cellSize == p.pixelSize + p.gridGap
        xPos == c.x * cellSize * 1000 + p.gridGap * 500
        yPos == c.y * cellSize * 1000 + p.gridGap * 500
        size == p.pixelSize * 1000
        a == [x |-> xPos, y |-> yPos, size |-> size, shape |-> p.pixelShape,
              cornerRadius |-> p.cornerRadius, customShape |-> p.customShape]
        r == createShapePath(acc.cache, xPos, yPos, size, p.pixelShape,
                             p.cornerRadius, p.customShape)
    IN  IF color = "" THEN [acc EXCEPT !.grid = GridAfterRead(acc.grid, c.x, c.y)]
        ELSE [cache |-> r.cache,
              grid |-> GridAfterRead(acc.grid, c.x, c.y),
              ret |-> [called |-> TRUE, args |-> a, key |-> r.key, path |-> r.path,
                       hit |-> r.hit, sizeBefore |-> Len(acc.cache),
                       evicted |-> MapKeys(acc.cache) \ MapKeys(r.cache)],
              age |-> IF r.hit THEN acc.age
                      ELSE [k \in MapKeys(r.cache) |->
                               IF k = r.key THEN 0 ELSE acc.age[k] + 1],
              crispPaths |-> Append(acc.crispPaths,
                  CrispElement(c.x, c.y, p.pixelShape, xPos, yPos, size, r.path, color)),
              glowPaths |-> IF p.glowEnabled
                  THEN Append(acc.glowPaths,
                      GlowElement(c.x, c.y, p.pixelShape, xPos, yPos, size, r.path, color))
                  ELSE acc.glowPaths,
              bulbPaths |-> IF p.bulbEnabled
                  THEN Append(acc.bulbPaths,
                      BulbElement(c.x, c.y, p.pixelShape, xPos, yPos, size, r.path, color))
                  ELSE acc.bulbPaths]

RECURSIVE RenderFrom(_, _, _, _)
RenderFrom(i, cells, acc, p) ==
    IF i > Len(cells) THEN acc
    ELSE CHOOSE done \in {RenderFrom(i + 1, cells, next, p) :
                              next \in {RenderCell(acc, cells[i], p)}} : TRUE

\* Lines 602-708.  The result holds the element list and the cache afterwards.
renderPixels(cache, lastCall, ages, area, p) ==
    CHOOSE result \in
        {[cache |-> done.cache, ret |-> done.ret, age |-> done.age,
          gridAfter |-> done.grid,
          elements |-> Layered(done.glowPaths, done.crispPaths, done.bulbPaths)] :
            done \in {RenderFrom(1, cells,
                                 [cache |-> cache, ret |-> lastCall, age |-> ages,
                                  grid |-> p.pixelData, crispPaths |-> <<>>, glowPaths |-> <<>>,
                                  bulbPaths |-> <<>>], p) :
                         cells \in {VisibleCells(area)}}} : TRUE

\* The props renderPixels reads.
Props ==
    [pixelData |-> pixelData, pixelSize |-> pixelSize, gridGap |-> gridGap,
     pixelShape |-> pixelShape, cornerRadius |-> cornerRadius, customShape |-> customShape,
     glowEnabled |-> glowEnabled, bulbEnabled |-> bulbEnabled]

\* One render of the component with the new props and state: renderPixels is computed
\* again (createShapePath, one of its dependencies, is a new function at every render).
Rerender ==
    \E area \in {visibleArea'} : \E p \in {Props'} :
        \E r \in {renderPixels(pathCache, ret, age, area, p)} :
            /\ pathCache' = r.cache
            /\ ret' = r.ret
            /\ age' = r.age
            /\ elements' = r.elements
            /\ gridAfter' = r.gridAfter

\* Lines 589-599: a new pixelData is rendered, then the effect bumps updateCounter and
\* the component renders once more.
RerenderTwice ==
    \E area \in {visibleArea'} : \E p \in {Props'} :
        \E r1 \in {renderPixels(pathCache, ret, age, area, p)} :
            \E r2 \in {renderPixels(r1.cache, r1.ret, r1.age, area, p)} :
                /\ pathCache' = r2.cache
                /\ ret' = r2.ret
                /\ age' = r2.age
                /\ elements' = r2.elements
                /\ gridAfter' = r2.gridAfter

(***************************************************************************)
(* The cache alone: createShapePath called with any arguments, in any      *)
(* order.                                                                  *)
(***************************************************************************)
CallXs == {0, 1000}

RoundedCorners ==
    [enabled |-> TRUE, topLeft |-> 50, topRight |-> 0, bottomLeft |-> 0, bottomRight |-> 25]

TriangleShape == [path |-> "M 0,0 L 100,50 L 0,100 Z", viewBox |-> "0 0 100 100"]

\* The shape settings a call is made with: plain and rounded rectangles, a circle, a
\* custom shape with a path and one whose path is empty (drawn as a rectangle).
CallForms ==
    {[shape |-> "rectangle", cornerRadius |-> NoCornerRadius, customShape |-> NoCustomShape],
     [shape |-> "rectangle", cornerRadius |-> RoundedCorners, customShape |-> NoCustomShape],
     [shape |-> "circle", cornerRadius |-> NoCornerRadius, customShape |-> NoCustomShape],
     [shape |-> "custom", cornerRadius |-> NoCornerRadius, customShape |-> TriangleShape],
     [shape |-> "custom", cornerRadius |-> NoCornerRadius, customShape |-> NoCustomShape]}

CallArgs ==
    {[x |-> x, y |-> 0, size |-> 1000, shape |-> f.shape,
      cornerRadius |-> f.cornerRadius, customShape |-> f.customShape] :
        x \in CallXs, f \in CallForms}

KeyOf(a) == CacheKey(a.x, a.y, a.size, a.shape, a.cornerRadius, a.customShape)

PathOf(a) == ComputePath(a.x, a.y, a.size, a.shape, a.cornerRadius, a.customShape)

NoCall == [called |-> FALSE]

\* The history kept of one call: its arguments and result, the size of the cache
\* before it and the keys it removed.
CallRecord(m, a, r) ==
    [called |-> TRUE, args |-> a, key |-> r.key, path |-> r.path, hit |-> r.hit,
     sizeBefore |-> Len(m), evicted |-> MapKeys(m) \ MapKeys(r.cache)]

\* The misses since each cached key was inserted.
AgeAfter(ages, r) ==
    IF r.hit THEN ages
    ELSE [k \in MapKeys(r.cache) |-> IF k = r.key THEN 0 ELSE ages[k] + 1]

EmptyGrid(w, h) == [y \in 0..(h - 1) |-> [x \in 0..(w - 1) |-> ""]]

InitCacheVars ==
    /\ pathCache = <<>>
    /\ ret = NoCall
    /\ age = <<>>

\* App.jsx line 813: glowEnabled and bulbEnabled are read by performExport (lines
\* 705-707) and are not among its dependencies: it keeps the values of the render
\* that last made it.
ExportClosure(glow, bulb) == [glowEnabled |-> glow, bulbEnabled |-> bulb]

NoRead ==
    [pixelGrid |-> <<>>, width |-> 0, height |-> 0, pixelSize |-> 0, gridGap |-> 0,
     pixelShape |-> "", cornerRadius |-> NoCornerRadius, glowEnabled |-> FALSE,
     bulbEnabled |-> FALSE]

\* The latest step was no export.
NoExport ==
    [done |-> FALSE, format |-> "", kind |-> "", read |-> NoRead, calls |-> <<>>,
     mimeType |-> "", extension |-> "", document |-> <<>>]

\* An event that carries no pointer position, and the pointer event of a frame that
\* updateViewport was requested for.
NoEvent == [x |-> 0, y |-> 0, buttons |-> 0, touches |-> 0]

NoRequest == [callback |-> "", event |-> NoEvent]

NoDelivery == <<>>

\* Lines 108 and 111: no frame was requested, no touch seen, nothing handed to the parent;
\* performExport was made by the first render, with the effects' defaults (off).
\* App.jsx line 519: the bulb configuration of a project that brings none.
DefaultBulbSettings ==
    [intensity |-> 50, radius |-> 50, positionX |-> 50, positionY |-> 50]

NoImport == [pc |-> "idle"]

\* The App's state outside the renderer: the vector backend in use, the overlay off,
\* no colour used yet, the import modal closed.
InitAppVars ==
    /\ rendererType = "svg"
    /\ showGrid = FALSE
    /\ bulbSettings = DefaultBulbSettings
    /\ colorHistory = <<>>
    /\ importModal = [open |-> FALSE, url |-> ""]
    /\ imported = NoImport

\* App.jsx lines 80 and 89-90: no action signalled, nothing selected or copied; the
\* effects of the first render have not run.
NoSelection == [x1 |-> -1, y1 |-> -1, x2 |-> -1, y2 |-> -1]

NoBuffer == [width |-> 0, height |-> 0, data |-> <<>>]

NoKey == [key |-> ""]

InitEditVars ==
    /\ lastActionType = ""
    /\ isInitializedRef = FALSE
    /\ history = <<>>
    /\ selectionArea = NoSelection
    /\ copyBuffer = NoBuffer
    /\ activeColor = "#000000"
    /\ hasDrawn = FALSE
    /\ pending = <<>>
    /\ operations = <<>>
    /\ keyed = NoKey

\* SVGRenderer.jsx lines 111-112: no timeout pending, no finger down.
NoGesture == [multi |-> FALSE, log |-> <<>>]

InitTouchVars ==
    /\ touchTimeoutRef = NoEvent
    /\ touches = 0
    /\ gesture = NoGesture

InitPointerVars ==
    /\ InitEditVars
    /\ InitTouchVars
    /\ exportClosure = ExportClosure(FALSE, FALSE)
    /\ exported = NoExport
    /\ multiTouchRef = FALSE
    /\ requested = NoRequest
    /\ delivered = NoDelivery

InitInputVars == InitAppVars /\ InitPointerVars

InitViewVars ==
    /\ viewportState = InitialViewport
    /\ container = [width |-> 1, height |-> 1, svgWidth |-> 1, scrollLeft |-> 0, scrollTop |-> 0]
    /\ observer = "off"
    /\ rafRef = 0
    /\ frames = {}
    /\ measured = <<>>

InitCache ==
    /\ InitCacheVars
    /\ InitInputVars
    /\ InitViewVars
    /\ gridWidth = 1
    /\ gridHeight = 1
    /\ pixelSize = 1
    /\ gridGap = 0
    /\ pixelData = EmptyGrid(1, 1)
    /\ pixelShape = "rectangle"
    /\ cornerRadius = NoCornerRadius
    /\ customShape = NoCustomShape
    /\ glowEnabled = FALSE
    /\ bulbEnabled = FALSE
    /\ elements = <<>>
    /\ gridAfter = pixelData

CallCreateShapePath ==
    \E a \in CallArgs :
        LET r == createShapePath(pathCache, a.x, a.y, a.size, a.shape,
                                 a.cornerRadius, a.customShape)
        IN  /\ pathCache' = r.cache
            /\ ret' = CallRecord(pathCache, a, r)
            /\ age' = AgeAfter(age, r)
            /\ UNCHANGED <<propVars, viewVars, elements, inputVars, gridAfter, exportClosure>>
            /\ exported' = NoExport
            /\ UNCHANGED <<editVars, touchVars>>
            /\ UNCHANGED appVars

NextCache == CallCreateShapePath

SpecCache == InitCache /\ [][NextCache]_vars

(***************************************************************************)
(* C1: after every completed createShapePath call, in any sequence of      *)
(* calls with any keys, the cache holds at most its capacity of entries.   *)
(***************************************************************************)
CacheBounded == Len(pathCache) <= PathCacheLimit

\* A miss on a full cache has completed, and the cache is still at capacity.
CacheOverflowed ==
    /\ ret.called
    /\ ~ret.hit
    /\ ret.sizeBefore = PathCacheLimit
    /\ Len(pathCache) = PathCacheLimit

(***************************************************************************)
(* C2: a miss that makes the cache exceed its capacity evicts exactly one  *)
(* entry, the one inserted earliest among those present; a miss below      *)
(* capacity evicts nothing; a hit leaves the cache, and so the eviction    *)
(* order, as it was.                                                       *)
(***************************************************************************)
FifoStep ==
    IF ret'.hit
    THEN pathCache' = pathCache
    ELSE LET gone == MapKeys(pathCache) \ MapKeys(pathCache')
         IN  /\ MapHas(pathCache', ret'.key)
             /\ IF Len(pathCache) + 1 > PathCacheLimit
                THEN /\ Cardinality(gone) = 1
                     /\ \A k \in gone : \A j \in MapKeys(pathCache) \ {k} : age[j] < age[k]
                     /\ Len(pathCache') = PathCacheLimit
                ELSE /\ gone = {}
                     /\ Len(pathCache') = Len(pathCache) + 1

FifoEviction == [][FifoStep]_vars

\* An eviction has just happened: the latest call was a miss that removed a key.
EvictionHappened ==
    /\ ret.called
    /\ ~ret.hit
    /\ ret.evicted # {}

(***************************************************************************)
(* C3: every call returns the path an uncached computation on the same     *)
(* arguments returns, and every entry of the cache holds the path computed *)
(* from any arguments that have its key.                                   *)
(***************************************************************************)
CacheTransparent ==
    /\ ret.called => ret.path = PathOf(ret.args)
    /\ \A i \in 1..Len(pathCache) : \A a \in CallArgs :
           KeyOf(a) = pathCache[i].key => pathCache[i].path = PathOf(a)

\* A call for a custom shape was answered from the cache after an eviction-sized history.
CustomPathHit ==
    /\ ret.called
    /\ ret.hit
    /\ ret.args.shape = "custom"
    /\ ret.args.customShape.path # ""
    /\ Len(pathCache) = PathCacheLimit

(***************************************************************************)
(* The viewport: the updateViewport effect, its ResizeObserver and the     *)
(* animation frames, with the container resized, zoomed and scrolled.      *)
(***************************************************************************)
GridConfigs ==
    {[gridWidth |-> 4, gridHeight |-> 4, pixelSize |-> 8, gridGap |-> 2],
     [gridWidth |-> 8, gridHeight |-> 8, pixelSize |-> 23, gridGap |-> 2]}

ContainerWidths == {1, 15, 16}
ContainerHeights == {1, 15}
SvgWidths == {8, 40, 41}
ScrollOffsets == {<<0, 0>>, <<30, 0>>, <<0, 30>>}

Containers ==
    {[width |-> w, height |-> h, svgWidth |-> sw, scrollLeft |-> s[1], scrollTop |-> s[2]] :
        w \in ContainerWidths, h \in ContainerHeights, sw \in SvgWidths, s \in ScrollOffsets}

\* requestAnimationFrame returns an id no pending frame has.  Ids are compared only
\* with the ids of pending frames, so the smallest unused one stands for the next.
FrameIds(fs) == {f.id : f \in fs}

FreshFrameId(fs) == CHOOSE i \in 1..(Cardinality(fs) + 1) :
                        /\ i \notin FrameIds(fs)
                        /\ \A j \in 1..(i - 1) : j \in FrameIds(fs)

\* cancelAnimationFrame(id); the id of a frame that has run cancels nothing.
CancelFrame(fs, id) == {f \in fs : f.id # id}

\* A requested frame: its id, its callback and what the callback closes over: the
\* props of the render that made it and the event of the handler that requested it.
Frame(id, callback, event) ==
    [id |-> id, callback |-> callback, totalWidth |-> totalWidth,
     grid |-> <<gridWidth, gridHeight, pixelSize, gridGap>>, event |-> event]

InitView ==
    /\ InitCacheVars
    /\ InitInputVars
    /\ viewportState = InitialViewport
    /\ container \in {c \in Containers : c.scrollLeft = 0 /\ c.scrollTop = 0}
    /\ observer = "off"
    /\ rafRef = 0
    /\ frames = {}
    /\ measured = <<>>
    /\ \E g \in GridConfigs :
           /\ gridWidth = g.gridWidth
           /\ gridHeight = g.gridHeight
           /\ pixelSize = g.pixelSize
           /\ gridGap = g.gridGap
           /\ pixelData = EmptyGrid(g.gridWidth, g.gridHeight)
    /\ pixelShape = "rectangle"
    /\ cornerRadius = NoCornerRadius
    /\ customShape = NoCustomShape
    /\ glowEnabled = FALSE
    /\ bulbEnabled = FALSE
    /\ elements = <<>>
    /\ gridAfter = pixelData

\* Lines 115-159: the effect runs after the first render: updateViewport at once, then
\* the observer starts, which may deliver a first notification.
Mount ==
    /\ rendererType = "svg"
    /\ observer = "off"
    /\ measured' = Measure(container, totalWidth)
    /\ viewportState' = updateViewport(viewportState, measured')
    /\ observer' \in {"idle", "notify"}
    /\ UNCHANGED <<propVars, container, rafRef, frames, inputVars, exportClosure>>
    /\ exported' = NoExport
    /\ UNCHANGED <<editVars, touchVars>>
    /\ UNCHANGED appVars
    /\ Rerender

\* The container is resized: the observer will be notified.
EnvResize ==
    /\ observer # "off"
    /\ \E w \in ContainerWidths, h \in ContainerHeights :
           /\ <<w, h>> # <<container.width, container.height>>
           /\ container' = [container EXCEPT !.width = w, !.height = h]
    /\ observer' = "notify"
    /\ UNCHANGED <<cacheVars, propVars, viewportState, rafRef, frames, measured, elements,
                   inputVars, gridAfter, exportClosure>>
    /\ exported' = NoExport
    /\ UNCHANGED <<editVars, touchVars>>
    /\ UNCHANGED appVars

\* The zoom changes the width the svg is drawn with; whether the container's box
\* changes with it, and so whether the observer is notified, depends on the layout.
EnvZoom ==
    /\ observer # "off"
    /\ \E sw \in SvgWidths \ {container.svgWidth} :
           container' = [container EXCEPT !.svgWidth = sw]
    /\ observer' \in {observer, "notify"}
    /\ UNCHANGED <<cacheVars, propVars, viewportState, rafRef, frames, measured, elements,
                   inputVars, gridAfter, exportClosure>>
    /\ exported' = NoExport
    /\ UNCHANGED <<editVars, touchVars>>
    /\ UNCHANGED appVars

\* The container is scrolled.  The renderer registers no scroll listener.
EnvScroll ==
    /\ observer # "off"
    /\ \E s \in ScrollOffsets \ {<<container.scrollLeft, container.scrollTop>>} :
           container' = [container EXCEPT !.scrollLeft = s[1], !.scrollTop = s[2]]
    /\ UNCHANGED <<cacheVars, propVars, viewportState, observer, rafRef, frames,
                   measured, elements, inputVars, gridAfter, exportClosure>>
    /\ exported' = NoExport
    /\ UNCHANGED <<editVars, touchVars>>
    /\ UNCHANGED appVars

\* Lines 149-155: the observer's callback.
ResizeObserverCallback ==
    /\ observer = "notify"
    /\ observer' = "idle"
    /\ LET kept == IF rafRef # 0 THEN CancelFrame(frames, rafRef) ELSE frames
           id == FreshFrameId(kept)
       IN  /\ frames' = kept \cup {Frame(id, "updateViewport", NoEvent)}
           /\ rafRef' = id
    /\ requested' = [callback |-> "updateViewport", event |-> NoEvent]
    /\ UNCHANGED <<cacheVars, propVars, viewportState, container, measured, elements,
                   multiTouchRef, delivered, gridAfter, exportClosure>>
    /\ exported' = NoExport
    /\ UNCHANGED <<editVars, touchVars>>
    /\ UNCHANGED appVars

\* A pending animation frame runs its callback: updateViewport (lines 116-143).
AnimationFrame ==
    \E f \in frames :
        /\ f.callback = "updateViewport"
        /\ frames' = frames \ {f}
        /\ measured' = Measure(container, f.totalWidth)
        /\ viewportState' = updateViewport(viewportState, measured')
        /\ UNCHANGED <<propVars, container, observer, rafRef, inputVars, exportClosure>>
        /\ exported' = NoExport
        /\ UNCHANGED <<editVars, touchVars>>
        /\ UNCHANGED appVars
        /\ IF viewportState' # viewportState
           THEN Rerender
           ELSE UNCHANGED <<cacheVars, elements, gridAfter>>

\* The grid or the cell size changes.  When totalWidth changes the effect is cleaned up
\* (lines 161-166) and run again (lines 115-159).
ChangeGrid ==
    /\ observer # "off"
    /\ \E g \in GridConfigs :
           /\ <<g.gridWidth, g.gridHeight, g.pixelSize, g.gridGap>>
                  # <<gridWidth, gridHeight, pixelSize, gridGap>>
           /\ gridWidth' = g.gridWidth
           /\ gridHeight' = g.gridHeight
           /\ pixelSize' = g.pixelSize
           /\ gridGap' = g.gridGap
           /\ pixelData' = EmptyGrid(g.gridWidth, g.gridHeight)
    /\ UNCHANGED <<pixelShape, cornerRadius, customShape, glowEnabled, bulbEnabled,
                   container, inputVars>>
    /\ exported' = NoExport
    /\ UNCHANGED <<editVars, touchVars>>
    /\ UNCHANGED appVars
    /\ exportClosure' = ExportClosure(glowEnabled, bulbEnabled)
    /\ IF totalWidth' # totalWidth
       THEN /\ frames' = IF rafRef # 0 THEN CancelFrame(frames, rafRef) ELSE frames
            /\ measured' = Measure(container, totalWidth')
            /\ viewportState' = updateViewport(viewportState, measured')
            /\ observer' \in {"idle", "notify"}
            /\ UNCHANGED rafRef
       ELSE UNCHANGED <<viewportState, observer, rafRef, frames, measured>>
    /\ RerenderTwice

NextView ==
    \/ Mount
    \/ EnvResize
    \/ EnvZoom
    \/ EnvScroll
    \/ ResizeObserverCallback
    \/ AnimationFrame
    \/ ChangeGrid

SpecView == InitView /\ [][NextView]_vars

(***************************************************************************)
(* C6: the visible area contains every cell of the grid whose rectangle    *)
(* intersects the viewport rectangle [left, left + width] x                *)
(* [top, top + height], without the buffer.                                *)
(***************************************************************************)
CellIntersectsViewport(cx, cy) ==
    LET cellSize == pixelSize + gridGap
        right == FracAdd(viewportState.left, viewportState.width)
        bottom == FracAdd(viewportState.top, viewportState.height)
    IN  /\ FracLeq(Whole(cx * cellSize), right)
        /\ FracLeq(viewportState.left, Whole((cx + 1) * cellSize))
        /\ FracLeq(Whole(cy * cellSize), bottom)
        /\ FracLeq(viewportState.top, Whole((cy + 1) * cellSize))

InVisibleArea(cx, cy) ==
    /\ visibleArea.startX <= cx
    /\ cx < visibleArea.endX
    /\ visibleArea.startY <= cy
    /\ cy < visibleArea.endY

ViewportContained ==
    \A cx \in 0..(gridWidth - 1), cy \in 0..(gridHeight - 1) :
        CellIntersectsViewport(cx, cy) => InVisibleArea(cx, cy)

\* After a measurement the window cuts the grid: some cells lie outside the visible
\* area, and the cells the viewport touches are inside it.
WindowCutsGrid ==
    /\ measured # <<>>
    /\ visibleArea.endX < gridWidth
    /\ visibleArea.endY < gridHeight
    /\ \E cx \in 0..(gridWidth - 1), cy \in 0..(gridHeight - 1) :
           CellIntersectsViewport(cx, cy)

(***************************************************************************)
(* C7: the four bounds of the visible area lie within the grid.            *)
(***************************************************************************)
VisibleAreaClamped ==
    /\ 0 <= visibleArea.startX /\ visibleArea.startX <= gridWidth
    /\ 0 <= visibleArea.endX /\ visibleArea.endX <= gridWidth
    /\ 0 <= visibleArea.startY /\ visibleArea.startY <= gridHeight
    /\ 0 <= visibleArea.endY /\ visibleArea.endY <= gridHeight

\* After a measurement, the buffered range reaches outside the grid on both sides of
\* both axes, and the visible area is the whole grid.
ClampActed ==
    LET cellSize == pixelSize + gridGap
        right == FracAdd(viewportState.left, viewportState.width)
        bottom == FracAdd(viewportState.top, viewportState.height)
    IN  /\ measured # <<>>
        /\ FloorDiv(viewportState.left, cellSize) - 5 < 0
        /\ CeilDiv(right, cellSize) + 5 > gridWidth
        /\ CeilDiv(bottom, cellSize) + 5 > gridHeight
        /\ visibleArea = [startX |-> 0, endX |-> gridWidth, startY |-> 0, endY |-> gridHeight]

(***************************************************************************)
(* C8: the visible area is the raw cell range (the floor of the viewport's *)
(* start and the ceiling of its end, in cells) widened by 5 cells on every *)
(* side and clamped to the grid; a 4x4 grid of cell size 10 with the       *)
(* viewport 15 x 15 at the origin gives 0, 4, 0, 4.                        *)
(***************************************************************************)
RawCells == -1..101

\* s is Math.floor(a / c): s * c <= a < (s + 1) * c
IsFloor(s, a, c) == FracLeq(Whole(s * c), a) /\ ~FracLeq(Whole((s + 1) * c), a)

\* e is Math.ceil(a / c): (e - 1) * c < a <= e * c
IsCeil(e, a, c) == ~FracLeq(a, Whole((e - 1) * c)) /\ FracLeq(a, Whole(e * c))

ClampTo(v, hi) == Max(0, Min(hi, v))

BufferedRange ==
    LET cellSize == pixelSize + gridGap
        right == FracAdd(viewportState.left, viewportState.width)
        bottom == FracAdd(viewportState.top, viewportState.height)
    IN  /\ \E s \in RawCells : /\ IsFloor(s, viewportState.left, cellSize)
                               /\ visibleArea.startX = ClampTo(s - 5, gridWidth)
        /\ \E e \in RawCells : /\ IsCeil(e, right, cellSize)
                               /\ visibleArea.endX = ClampTo(e + 5, gridWidth)
        /\ \E s \in RawCells : /\ IsFloor(s, viewportState.top, cellSize)
                               /\ visibleArea.startY = ClampTo(s - 5, gridHeight)
        /\ \E e \in RawCells : /\ IsCeil(e, bottom, cellSize)
                               /\ visibleArea.endY = ClampTo(e + 5, gridHeight)
        /\ (/\ gridWidth = 4 /\ gridHeight = 4 /\ cellSize = 10
            /\ viewportState = [left |-> Whole(0), top |-> Whole(0), width |-> Whole(15),
                                height |-> Whole(15), scale |-> Whole(1)])
           => visibleArea = [startX |-> 0, endX |-> 4, startY |-> 0, endY |-> 4]

\* The scenario: the 4x4 grid of cell size 10 measured with a 15 x 15 container at scale 1.
ScenarioC ==
    /\ measured # <<>>
    /\ gridWidth = 4 /\ gridHeight = 4 /\ pixelSize + gridGap = 10
    /\ viewportState = [left |-> Whole(0), top |-> Whole(0), width |-> Whole(15),
                        height |-> Whole(15), scale |-> Whole(1)]
    /\ visibleArea = [startX |-> 0, endX |-> 4, startY |-> 0, endY |-> 4]

(***************************************************************************)
(* C9, as claimed: once updateViewport has run, the stored viewport is the *)
(* viewport computed from the measurement it read.                         *)
(***************************************************************************)
StoredIsLatest == measured # <<>> => viewportState = ViewportOf(measured)

(***************************************************************************)
(* C9, amended: once updateViewport has run, the stored viewport has left  *)
(* and top 0 and either is the viewport computed from the measurement it   *)
(* read, or differs from it by at most 1 in width, at most 1 in height and *)
(* at most 0.01 in scale.                                                  *)
(***************************************************************************)
StoredWithinTolerance ==
    measured # <<>> =>
        LET latest == ViewportOf(measured)
        IN  /\ viewportState.left = Whole(0)
            /\ viewportState.top = Whole(0)
            /\ \/ viewportState = latest
               \/ /\ ~AbsDiffExceeds(viewportState.width, latest.width, 1, 1)
                  /\ ~AbsDiffExceeds(viewportState.height, latest.height, 1, 1)
                  /\ ~AbsDiffExceeds(viewportState.scale, latest.scale, 1, 100)

\* updateViewport has run on a small change and kept the earlier viewport.
StaleViewportKept ==
    /\ measured # <<>>
    /\ frames = {}
    /\ observer = "idle"
    /\ measured = Measure(container, totalWidth)
    /\ viewportState # ViewportOf(measured)

(***************************************************************************)
(* C10: with no update pending, the left and top the visible area is       *)
(* computed from are the container's current scroll offsets (in the        *)
(* viewport's units).                                                      *)
(***************************************************************************)
ScrollOffsetsUsed ==
    (observer = "idle" /\ frames = {}) =>
        /\ viewportState.left = FracDiv(Whole(container.scrollLeft), viewportState.scale)
        /\ viewportState.top = FracDiv(Whole(container.scrollTop), viewportState.scale)

(***************************************************************************)
(* Rendering: the parent changes the pixel data, the shape and the effect  *)
(* switches, and every change is rendered.                                 *)
(***************************************************************************)
RenderWidth == 7
RenderHeight == 2

\* The pixel grids the parent hands over: empty, full, the two end columns, and two
\* colours alternating on the first row.
PixelGrids ==
    {[y \in 0..(RenderHeight - 1) |-> [x \in 0..(RenderWidth - 1) |-> ""]],
     [y \in 0..(RenderHeight - 1) |-> [x \in 0..(RenderWidth - 1) |-> "#ff0000"]],
     [y \in 0..(RenderHeight - 1) |-> [x \in 0..(RenderWidth - 1) |->
         IF x = 0 \/ x = RenderWidth - 1 THEN "#0000ff" ELSE ""]],
     [y \in 0..(RenderHeight - 1) |-> [x \in 0..(RenderWidth - 1) |->
         IF y > 0 THEN "" ELSE IF x % 2 = 0 THEN "#ff0000" ELSE "#00ff00"]]}

RenderShapes == {"rectangle", "circle"}

InitRender ==
    /\ InitInputVars
    /\ viewportState = InitialViewport
    /\ container \in {c \in Containers : /\ c.scrollLeft = 0 /\ c.scrollTop = 0
                                         /\ c.height = 1 /\ c.svgWidth = 8}
    /\ observer = "off"
    /\ rafRef = 0
    /\ frames = {}
    /\ measured = <<>>
    /\ gridWidth = RenderWidth
    /\ gridHeight = RenderHeight
    /\ pixelSize = 7
    /\ gridGap = 1
    /\ pixelData \in PixelGrids
    /\ pixelShape \in RenderShapes
    /\ cornerRadius = NoCornerRadius
    /\ customShape = NoCustomShape
    /\ glowEnabled = FALSE
    /\ bulbEnabled = FALSE
    /\ \E r \in {renderPixels(<<>>, NoCall, <<>>,
                              visibleAreaOf(InitialViewport, 7, 1, RenderWidth, RenderHeight),
                              [pixelData |-> pixelData, pixelSize |-> 7, gridGap |-> 1,
                               pixelShape |-> pixelShape, cornerRadius |-> NoCornerRadius,
                               customShape |-> NoCustomShape, glowEnabled |-> FALSE,
                               bulbEnabled |-> FALSE])} :
           /\ pathCache = r.cache
           /\ ret = r.ret
           /\ age = r.age
           /\ elements = r.elements
           /\ gridAfter = r.gridAfter

SetPixelData ==
    /\ observer # "off"
    /\ \E pd \in PixelGrids \ {pixelData} : pixelData' = pd
    /\ UNCHANGED <<gridWidth, gridHeight, pixelSize, gridGap, pixelShape, cornerRadius,
                   customShape, glowEnabled, bulbEnabled, viewVars, inputVars>>
    /\ exported' = NoExport
    /\ UNCHANGED <<editVars, touchVars>>
    /\ UNCHANGED appVars
    /\ exportClosure' = ExportClosure(glowEnabled, bulbEnabled)
    /\ RerenderTwice

SetGlowEnabled ==
    /\ observer # "off"
    /\ glowEnabled' = ~glowEnabled
    /\ UNCHANGED <<gridWidth, gridHeight, pixelSize, gridGap, pixelData, pixelShape,
                   cornerRadius, customShape, bulbEnabled, viewVars, inputVars, exportClosure>>
    /\ exported' = NoExport
    /\ UNCHANGED <<editVars, touchVars>>
    /\ UNCHANGED appVars
    /\ Rerender

SetBulbEnabled ==
    /\ observer # "off"
    /\ bulbEnabled' = ~bulbEnabled
    /\ UNCHANGED <<gridWidth, gridHeight, pixelSize, gridGap, pixelData, pixelShape,
                   cornerRadius, customShape, glowEnabled, viewVars, inputVars, exportClosure>>
    /\ exported' = NoExport
    /\ UNCHANGED <<editVars, touchVars>>
    /\ UNCHANGED appVars
    /\ Rerender

SetPixelShape ==
    /\ observer # "off"
    /\ \E sh \in RenderShapes \ {pixelShape} : pixelShape' = sh
    /\ UNCHANGED <<gridWidth, gridHeight, pixelSize, gridGap, pixelData, cornerRadius,
                   customShape, glowEnabled, bulbEnabled, viewVars, inputVars>>
    /\ exported' = NoExport
    /\ UNCHANGED <<editVars, touchVars>>
    /\ UNCHANGED appVars
    /\ exportClosure' = ExportClosure(glowEnabled, bulbEnabled)
    /\ Rerender

(***************************************************************************)
(* performExport (App.jsx): the raster passes over the whole grid, and the *)
(* clone of the svg element for the format svg.  The vector renderer is    *)
(* the one mounted (rendererType is svg).                                  *)
(***************************************************************************)
\* What performExport reads: the state of the render that made it, and the effect
\* switches it closes over.
(***************************************************************************)
(* The document SVGRenderer returns (lines 745-848): the definitions, the  *)
(* pixels, the interaction overlay and, when shown, the grid lines.        *)
(***************************************************************************)
totalHeight == gridHeight * (pixelSize + gridGap)

\* value || fallback on a field of a settings object: the fallback when the field is
\* absent (undefined) and also when it is 0.  A settings object is a function from
\* the names of the fields it has to numbers.
OrElse(settings, field, fallback) ==
    IF field \in DOMAIN settings /\ settings[field] # 0 THEN settings[field] ELSE fallback

\* Lines 764-805: the filter the glow elements refer to.
glowFilter == [id |-> "glowFilter", element |-> "filter"]

\* Lines 808-827: cx, cy and r in percent, stopOpacity in hundredths.
bulbGradientOf(bs) ==
    [id |-> "bulbGradient", element |-> "radialGradient",
     cx |-> OrElse(bs, "positionX", 50),
     cy |-> OrElse(bs, "positionY", 50),
     r |-> OrElse(bs, "radius", 50),
     stops |-> <<[offset |-> 0, stopOpacity |-> OrElse(bs, "intensity", 0)],
                 [offset |-> 100, stopOpacity |-> 0]>>]

bulbGradient == bulbGradientOf(bulbSettings)

\* Lines 440-478: x1, y1, x2 and y2 in thousandths.
gridLinesInside(show, area, ps, gap, tw, th) ==
    IF ~show THEN <<>>
    ELSE LET cellSize == ps + gap
             vertical == [i \in 1..(area.endX - area.startX) |->
                 LET x == area.startX + i - 1
                 IN  [key |-> <<"v", x>>, x1 |-> x * cellSize * 1000 - 500, y1 |-> 0,
                      x2 |-> x * cellSize * 1000 - 500, y2 |-> th * 1000]]
             horizontal == [i \in 1..(area.endY - area.startY) |->
                 LET y == area.startY + i - 1
                 IN  [key |-> <<"h", y>>, x1 |-> 0, y1 |-> y * cellSize * 1000 - 500,
                      x2 |-> tw * 1000, y2 |-> y * cellSize * 1000 - 500]]
         IN  vertical \o horizontal

gridLinesOf(show, area, ps, gap, tw, th) ==
    IF ~show THEN <<>>
    ELSE LET cellSize == ps + gap
             vertical == [i \in 1..(area.endX - area.startX + 1) |->
                 LET x == area.startX + i - 1
                 IN  [key |-> <<"v", x>>, x1 |-> x * cellSize * 1000 - 500, y1 |-> 0,
                      x2 |-> x * cellSize * 1000 - 500, y2 |-> th * 1000]]
             horizontal == [i \in 1..(area.endY - area.startY + 1) |->
                 LET y == area.startY + i - 1
                 IN  [key |-> <<"h", y>>, x1 |-> 0, y1 |-> y * cellSize * 1000 - 500,
                      x2 |-> tw * 1000, y2 |-> y * cellSize * 1000 - 500]]
         IN  vertical \o horizontal

gridLines == gridLinesOf(showGrid, visibleArea, pixelSize, gridGap, totalWidth, totalHeight)

\* Lines 762-846: the children of the svg element, in document order.
SvgChildren(defs, pixels, show, lines) ==
    <<[class |-> "defs", children |-> defs],
      [class |-> "pixels-layer", children |-> pixels],
      [class |-> "interaction-layer", children |-> <<[element |-> "rect"]>>]>> \o
    (IF show THEN <<[class |-> "grid-layer", children |-> lines]>> ELSE <<>>)

svgDocument == SvgChildren(<<glowFilter, bulbGradient>>, elements, showGrid, gridLines)

\* App.jsx lines 595 and 612-615: the deep clone without the interaction layer.
SvgCloneNoDefs(doc) ==
    SelectSeq(doc, LAMBDA g : g.class \notin {"interaction-layer", "defs"})

SvgClone(doc) == SelectSeq(doc, LAMBDA g : g.class # "interaction-layer")

ExportRead ==
    [pixelGrid |-> pixelData, width |-> gridWidth, height |-> gridHeight,
     pixelSize |-> pixelSize, gridGap |-> gridGap, pixelShape |-> pixelShape,
     cornerRadius |-> cornerRadius, glowEnabled |-> exportClosure.glowEnabled,
     bulbEnabled |-> exportClosure.bulbEnabled]

\* App.jsx lines 722-725, 737-740 and 752-755: one draw call.  drawBulbEffect is
\* handed no colour.
DrawCallNoOffset(layer, c, rd) ==
    LET exportCellSize == rd.pixelSize + rd.gridGap
    IN  [layer |-> layer, cell |-> <<c.x, c.y>>,
         origin |-> <<c.x * exportCellSize * 1000, c.y * exportCellSize * 1000>>,
         size |-> rd.pixelSize * 1000,
         fill |-> IF layer = "bulb" THEN "" ELSE ColorAt(rd.pixelGrid, c.x, c.y)]

DrawCall(layer, c, rd) ==
    LET exportCellSize == rd.pixelSize + rd.gridGap
    IN  [layer |-> layer, cell |-> <<c.x, c.y>>,
         origin |-> <<c.x * exportCellSize * 1000 + rd.gridGap * 500,
                      c.y * exportCellSize * 1000 + rd.gridGap * 500>>,
         size |-> rd.pixelSize * 1000,
         fill |-> IF layer = "bulb" THEN "" ELSE ColorAt(rd.pixelGrid, c.x, c.y)]

\* One pass: the loops over the whole grid, a draw call for each cell with a colour.
RasterPass(layer, rd) ==
    LET cells == VisibleCells([startX |-> 0, endX |-> rd.width,
                               startY |-> 0, endY |-> rd.height])
        painted == SelectSeq(cells, LAMBDA c : ColorAt(rd.pixelGrid, c.x, c.y) # "")
    IN  [i \in 1..Len(painted) |-> DrawCall(layer, painted[i], rd)]

\* App.jsx lines 715-759
RasterPassesFillFirst(rd) ==
    RasterPass("crisp", rd) \o
    (IF rd.glowEnabled THEN RasterPass("glow", rd) ELSE <<>>) \o
    (IF rd.bulbEnabled THEN RasterPass("bulb", rd) ELSE <<>>)

RasterPasses(rd) ==
    (IF rd.glowEnabled THEN RasterPass("glow", rd) ELSE <<>>) \o
    RasterPass("crisp", rd) \o
    (IF rd.bulbEnabled THEN RasterPass("bulb", rd) ELSE <<>>)

\* The grid after the reads pixelGrid[y]?.[x] of a pass (App.jsx lines 719, 734, 749).
RECURSIVE GridAfterReads(_, _, _)
GridAfterReads(i, cells, pd) ==
    IF i > Len(cells) THEN pd
    ELSE GridAfterReads(i + 1, cells, GridAfterRead(pd, cells[i].x, cells[i].y))

ExportGridAfter(rd) ==
    GridAfterReads(1, VisibleCells([startX |-> 0, endX |-> rd.width,
                                    startY |-> 0, endY |-> rd.height]), rd.pixelGrid)

ExportFormats == {"png", "jpg", "svg"}

\* App.jsx lines 577-813
\* App.jsx line 588: the vector branch is taken for the format svg with the vector
\* backend in use; every other request goes on to the canvas.
VectorBranch(format) == format = "svg" /\ rendererType = "svg"

\* App.jsx lines 766-767
MimeTypeOf(format) == IF format = "png" THEN "image/png" ELSE "image/jpeg"

performExport ==
    /\ rendererType = "canvas" \/ observer # "off"
    /\ \E format \in ExportFormats : \E rd \in {ExportRead} :
           IF VectorBranch(format)
           THEN /\ exported' = [done |-> TRUE, format |-> format, kind |-> "vector",
                                read |-> rd, calls |-> elements,
                                mimeType |-> "image/svg+xml", extension |-> "svg",
                                document |-> SvgClone(svgDocument)]
                /\ UNCHANGED gridAfter
           ELSE /\ exported' = [done |-> TRUE, format |-> format, kind |-> "raster",
                                read |-> rd, calls |-> RasterPasses(rd),
                                mimeType |-> MimeTypeOf(format), extension |-> format,
                                document |-> <<>>]
                /\ gridAfter' = ExportGridAfter(rd)
    /\ UNCHANGED <<editVars, touchVars>>
    /\ UNCHANGED <<cacheVars, propVars, viewVars, elements, inputVars, exportClosure,
                   appVars>>

\* The backend is switched (App.jsx lines 151-156 and 1353).  Leaving the vector
\* backend unmounts SVGRenderer: the effects' cleanups disconnect the observer and
\* cancel the pending frame (lines 161-166 and 734-742).  Coming back constructs it
\* anew: the initial viewport (lines 96-102), fresh refs and a first render.
\* rendererType is a dependency of performExport (App.jsx line 813).
setRendererType ==
    /\ rendererType = "canvas" \/ observer # "off"
    /\ rendererType' = (IF rendererType = "svg" THEN "canvas" ELSE "svg")
    /\ observer' = "off"
    /\ frames' = (IF rafRef # 0 THEN CancelFrame(frames, rafRef) ELSE frames)
    /\ rafRef' = 0
    /\ exportClosure' = ExportClosure(glowEnabled, bulbEnabled)
    /\ exported' = NoExport
    /\ UNCHANGED <<editVars, touchVars>>
    /\ UNCHANGED <<propVars, container, measured, inputVars, showGrid, bulbSettings,
                   colorHistory, importModal, imported>>
    /\ IF rendererType = "canvas"
       THEN /\ viewportState' = InitialViewport
            /\ Rerender
       ELSE UNCHANGED <<viewportState, cacheVars, elements, gridAfter>>

NextRender ==
    \/ Mount
    \/ ResizeObserverCallback
    \/ AnimationFrame
    \/ SetPixelData
    \/ SetGlowEnabled
    \/ SetBulbEnabled
    \/ SetPixelShape

SpecRender == InitRender /\ [][NextRender]_vars

\* Exports between the parent's changes, with the container as wide as the svg.
InitExport == InitRender /\ container.width \in {1, 16}

NextExport ==
    \/ Mount
    \/ SetPixelData
    \/ SetGlowEnabled
    \/ SetBulbEnabled
    \/ setRendererType
    \/ performExport

SpecExport == InitExport /\ [][NextExport]_vars

(***************************************************************************)
(* C4: in the element list of a render every glow element precedes every   *)
(* fill element and every fill element precedes every bulb element.        *)
(***************************************************************************)
LayerRank(layer) == CASE layer = "glow" -> 1 [] layer = "crisp" -> 2 [] layer = "bulb" -> 3

LayersOrdered ==
    \A i \in 1..Len(elements), j \in 1..Len(elements) :
        i < j => LayerRank(elements[i].layer) <= LayerRank(elements[j].layer)

\* A render with glow and bulb on has produced all three layers for several cells.
ThreeLayersRendered ==
    /\ glowEnabled
    /\ bulbEnabled
    /\ \E i, j, k \in 1..Len(elements) :
           /\ elements[i].layer = "glow"
           /\ elements[j].layer = "crisp"
           /\ elements[k].layer = "bulb"
           /\ elements[i].cell # elements[j].cell

(***************************************************************************)
(* C5: a cell inside the visible area with a colour gives exactly one fill *)
(* element, exactly one glow element iff glow is enabled and exactly one   *)
(* bulb element iff bulb is enabled; an empty cell and a cell outside the  *)
(* visible area give nothing.                                              *)
(***************************************************************************)
CountOf(layer, cx, cy) ==
    Cardinality({i \in 1..Len(elements) :
                    elements[i].layer = layer /\ elements[i].cell = <<cx, cy>>})

ElementsPerCell ==
    /\ \A cx \in 0..(gridWidth - 1), cy \in 0..(gridHeight - 1) :
           IF InVisibleArea(cx, cy) /\ pixelData[cy][cx] # ""
           THEN /\ CountOf("crisp", cx, cy) = 1
                /\ CountOf("glow", cx, cy) = (IF glowEnabled THEN 1 ELSE 0)
                /\ CountOf("bulb", cx, cy) = (IF bulbEnabled THEN 1 ELSE 0)
           ELSE /\ CountOf("crisp", cx, cy) = 0
                /\ CountOf("glow", cx, cy) = 0
                /\ CountOf("bulb", cx, cy) = 0
    /\ \A i \in 1..Len(elements) :
           /\ elements[i].cell[1] \in 0..(gridWidth - 1)
           /\ elements[i].cell[2] \in 0..(gridHeight - 1)

\* A render with glow on and bulb off of a grid with a coloured cell inside the visible
\* area, an empty cell inside it and a coloured cell outside it.
MixedCellsRendered ==
    /\ glowEnabled
    /\ ~bulbEnabled
    /\ Len(elements) > 0
    /\ \E cx \in 0..(gridWidth - 1), cy \in 0..(gridHeight - 1) :
           ~InVisibleArea(cx, cy) /\ pixelData[cy][cx] # ""
    /\ \E cx \in 0..(gridWidth - 1), cy \in 0..(gridHeight - 1) :
           InVisibleArea(cx, cy) /\ pixelData[cy][cx] = ""
    /\ \E cx \in 0..(gridWidth - 1), cy \in 0..(gridHeight - 1) :
           InVisibleArea(cx, cy) /\ pixelData[cy][cx] # ""

(***************************************************************************)
(* The pointer handlers, which request their callbacks through the same    *)
(* rafRef as the resize observer.                                          *)
(***************************************************************************)
\* clientX and clientY are taken relative to the svg's left and top edge.
MouseEvents ==
    {[x |-> 3, y |-> 3, buttons |-> 1, touches |-> 0],
     [x |-> 35, y |-> 12, buttons |-> 0, touches |-> 0]}

\* A touch event: the first touch's position and the number of touches on the surface.
TouchEvents ==
    {[x |-> 3, y |-> 12, buttons |-> 1, touches |-> 1],
     [x |-> 35, y |-> 3, buttons |-> 1, touches |-> 2]}

\* A touchend: the lifted touch's position and the number of touches that remain.
TouchEndEvents ==
    {[x |-> 3, y |-> 12, buttons |-> 0, touches |-> 0],
     [x |-> 35, y |-> 3, buttons |-> 0, touches |-> 1]}

\* Lines 177-207, with the props of the render the callback closes over (grid, tw) and
\* the svg's width as it is when the callback runs.  The svg keeps the aspect ratio of
\* its width and height attributes, so scaleY is scaleX.
getGridCoordinates(e, grid, tw, svgWidth) ==
    LET scaleX == Frac(svgWidth, tw)
        cellSize == grid[3] + grid[4]
        gridX == FloorDiv(FracDiv(Whole(e.x), scaleX), cellSize)
        gridY == FloorDiv(FracDiv(Whole(e.y), scaleX), cellSize)
    IN  [gridX |-> Max(0, Min(gridX, grid[1] - 1)),
         gridY |-> Max(0, Min(gridY, grid[2] - 1))]

Delivery(callback, coords, buttons) ==
    [callback |-> callback, gridX |-> coords.gridX, gridY |-> coords.gridY,
     buttons |-> buttons]

\* Lines 248-252 and 330-334 without the cancellation.
RequestFrameNoCancel(callback, e) ==
    LET id == FreshFrameId(frames)
    IN  /\ frames' = frames \cup {Frame(id, callback, e)}
        /\ rafRef' = id
        /\ requested' = [callback |-> callback, event |-> e]

\* Lines 248-252 and 330-334: cancel the frame rafRef names, request a new one.
RequestFrame(callback, e) ==
    LET kept == IF rafRef # 0 THEN CancelFrame(frames, rafRef) ELSE frames
        id == FreshFrameId(kept)
    IN  /\ frames' = kept \cup {Frame(id, callback, e)}
        /\ rafRef' = id
        /\ requested' = [callback |-> callback, event |-> e]

\* Lines 246-263
handleMouseMove ==
    /\ observer # "off"
    /\ \E e \in MouseEvents : RequestFrame("mouseMove", e)
    /\ UNCHANGED <<cacheVars, propVars, viewportState, container, observer, measured,
                   elements, multiTouchRef, delivered, gridAfter, exportClosure>>
    /\ exported' = NoExport
    /\ UNCHANGED <<editVars, touchVars>>
    /\ UNCHANGED appVars

\* Lines 319-359, for the touchmove e
handleTouchMoveOn(e) ==
    /\ observer # "off"
    /\ IF multiTouchRef \/ e.touches > 1
       THEN /\ multiTouchRef' = TRUE
            /\ UNCHANGED <<rafRef, frames, requested>>
       ELSE /\ RequestFrame("touchMove", e)
            /\ UNCHANGED multiTouchRef
    /\ UNCHANGED <<cacheVars, propVars, viewportState, container, observer, measured,
                   elements, delivered, gridAfter, exportClosure>>
    /\ exported' = NoExport
    /\ UNCHANGED editVars
    /\ UNCHANGED appVars

handleTouchMove == \E e \in TouchEvents : handleTouchMoveOn(e) /\ UNCHANGED touchVars

\* Lines 365-373: the flag after the touchend e.
MultiTouchAfterEnd(e) == IF e.touches = 0 THEN FALSE ELSE multiTouchRef

\* Lines 375-414: what the touchend e hands to the parent.
TouchEndDeliveries(e) ==
    IF MultiTouchAfterEnd(e)
    THEN <<>>
    ELSE LET coords == getGridCoordinates(e, <<gridWidth, gridHeight, pixelSize, gridGap>>,
                                          totalWidth, container.svgWidth)
         IN  <<Delivery("onCanvasMouseUp", coords, 0), Delivery("onClick", coords, 0)>>

\* Lines 361-415, for the touchend e
handleTouchEndOn(e) ==
    /\ observer # "off"
    /\ multiTouchRef' = MultiTouchAfterEnd(e)
    /\ delivered' = IF TouchEndDeliveries(e) = <<>> THEN delivered ELSE TouchEndDeliveries(e)
    /\ UNCHANGED <<cacheVars, propVars, viewVars, elements, requested,
                   gridAfter, exportClosure>>
    /\ exported' = NoExport
    /\ UNCHANGED editVars
    /\ UNCHANGED appVars

handleTouchEnd == \E e \in TouchEndEvents : handleTouchEndOn(e) /\ UNCHANGED touchVars

\* The pending pointer frame f runs its callback (lines 252-260 and 334-358).
PointerFrameOf(f) ==
    /\ f \in frames
    /\ f.callback \in {"mouseMove", "touchMove"}
    /\ frames' = frames \ {f}
    /\ LET coords == getGridCoordinates(f.event, f.grid, f.totalWidth, container.svgWidth)
       IN  delivered' = <<Delivery("onCanvasMouseMove", coords, f.event.buttons)>>
    /\ UNCHANGED <<cacheVars, propVars, viewportState, container, observer, rafRef,
                   measured, elements, multiTouchRef, requested, gridAfter, exportClosure>>
    /\ exported' = NoExport
    /\ UNCHANGED editVars
    /\ UNCHANGED appVars

PointerFrame == \E f \in frames : PointerFrameOf(f) /\ UNCHANGED touchVars

NextFrames ==
    \/ Mount
    \/ EnvResize
    \/ ResizeObserverCallback
    \/ AnimationFrame
    \/ ChangeGrid
    \/ handleMouseMove
    \/ handleTouchMove
    \/ handleTouchEnd
    \/ PointerFrame

\* The svg is drawn 40 wide; the zoom does not change here.
InitFrames == InitView /\ container.svgWidth = 40

SpecFrames == InitFrames /\ [][NextFrames]_vars

(***************************************************************************)
(* C11: at most one animation frame requested by the renderer is pending,  *)
(* and it is the latest request (the one rafRef names); a new request      *)
(* leaves only itself pending; a callback that runs is the latest          *)
(* request's and works on that request's event.                            *)
(***************************************************************************)
\* The frame f runs in this step: it leaves the pending set without a new request and
\* without the effect's cleanup (which only a change of props causes).
FrameRuns(f) ==
    /\ f \in frames
    /\ f \notin frames'
    /\ frames' \subseteq frames
    /\ <<gridWidth, gridHeight, pixelSize, gridGap>>' = <<gridWidth, gridHeight, pixelSize, gridGap>>

OnePendingStep ==
    /\ Cardinality(frames) <= 1
    /\ Cardinality(frames') <= 1
    /\ \A f \in frames' : /\ f.id = rafRef'
                         /\ f.callback = requested'.callback
                         /\ f.event = requested'.event
    /\ \A f \in frames :
           FrameRuns(f) =>
               /\ f.id = rafRef
               /\ f.callback = requested.callback
               /\ f.event = requested.event
               /\ f.callback = "updateViewport" => measured' = Measure(container, f.totalWidth)
               /\ f.callback # "updateViewport" =>
                      /\ Len(delivered') = 1
                      /\ delivered'[1] =
                             Delivery("onCanvasMouseMove",
                                      getGridCoordinates(requested.event, f.grid, f.totalWidth,
                                                         container.svgWidth),
                                      requested.event.buttons)

OnePendingFrame == [][OnePendingStep]_vars

\* A mouse move has superseded a pending frame of the resize observer, and its callback
\* has run and handed the move's cell to the parent.
RequestSuperseded ==
    /\ frames = {}
    /\ rafRef # 0
    /\ requested.callback = "mouseMove"
    /\ Len(delivered) = 1
    /\ delivered[1].callback = "onCanvasMouseMove"
    /\ delivered[1].gridX > 0
    /\ observer = "idle"
    /\ measured # Measure(container, totalWidth)

(***************************************************************************)
(* C12: when the raster export has read the same grid, sizes, shape and    *)
(* effect switches as the vector renderer and the visible area is the      *)
(* whole grid, the raster draw calls and the vector elements are the same  *)
(* composite: the same layers in the same order, over the same cells, at   *)
(* the same origins, with the same colours.                                *)
(***************************************************************************)
\* What a draw call or an element contributes to the composite.  The bulb layer takes
\* no colour from the cell in either backend.
Composite(seq) ==
    [i \in 1..Len(seq) |->
        [layer |-> seq[i].layer, cell |-> seq[i].cell, origin |-> seq[i].origin,
         colour |-> IF seq[i].layer = "bulb" THEN "" ELSE seq[i].fill]]

WholeGrid == [startX |-> 0, endX |-> gridWidth, startY |-> 0, endY |-> gridHeight]

RasterMatchesVector ==
    (/\ exported.done
     /\ exported.kind = "raster"
     /\ exported.read.pixelGrid = pixelData
     /\ exported.read.pixelSize = pixelSize
     /\ exported.read.gridGap = gridGap
     /\ exported.read.pixelShape = pixelShape
     /\ exported.read.glowEnabled = glowEnabled
     /\ exported.read.bulbEnabled = bulbEnabled
     /\ visibleArea = WholeGrid)
        => Composite(exported.calls) = Composite(elements)

\* A raster export with glow and bulb on, of a grid with two colours, beside a render
\* of the whole grid.
RasterBesideVector ==
    /\ exported.done
    /\ exported.kind = "raster"
    /\ exported.read.glowEnabled /\ glowEnabled
    /\ exported.read.bulbEnabled /\ bulbEnabled
    /\ visibleArea = WholeGrid
    /\ \E i, j \in 1..Len(exported.calls) :
           /\ exported.calls[i].layer = "crisp"
           /\ exported.calls[j].layer = "crisp"
           /\ exported.calls[i].fill # exported.calls[j].fill
    /\ Len(elements) = Len(exported.calls)

(***************************************************************************)
(* C13: after every render and every export the pixel grid holds in every  *)
(* cell the value the parent gave it.                                      *)
(***************************************************************************)
GridNotMutated == gridAfter = pixelData

\* A raster export has just read a grid with coloured cells, after a render of it.
GridReadByBoth ==
    /\ exported.done
    /\ exported.kind = "raster"
    /\ Len(exported.calls) > 0
    /\ Len(elements) > 0
    /\ ~exported.read.glowEnabled
    /\ \E y \in DOMAIN gridAfter : \E x \in DOMAIN gridAfter[y] : gridAfter[y][x] # ""

(***************************************************************************)
(* The path computation alone: createShapePath called on a wider range of  *)
(* arguments, a few calls at a time.                                       *)
(***************************************************************************)
PathCalls == 2

\* x, y and size in thousandths: a 10 x 10 cell at the origin and a 7 x 7 cell away
\* from it.
PathPositions ==
    {[x |-> 0, y |-> 0, size |-> 10000], [x |-> 8500, y |-> 500, size |-> 7000]}

\* Corner percentages as the parent hands them over: the sidebar's 0..100 and what a
\* loaded project file may hold (App.jsx line 515 stores effects.cornerRadius as read).
CornerPercentages == {-10, 0, 25, 50, 100, 150}

Corners(tl, tr, bl, br) ==
    [enabled |-> TRUE, topLeft |-> tl, topRight |-> tr, bottomLeft |-> bl, bottomRight |-> br]

PathCorners ==
    {Corners(p, 0, 0, 25) : p \in CornerPercentages} \cup
    {Corners(25, p, 100, 0) : p \in {0, 50, 150}} \cup
    {Corners(0, 0, 0, 0)}

PathForms ==
    {[shape |-> "rectangle", cornerRadius |-> cr, customShape |-> NoCustomShape] :
        cr \in PathCorners \cup {NoCornerRadius}} \cup
    {[shape |-> "circle", cornerRadius |-> NoCornerRadius, customShape |-> NoCustomShape],
     [shape |-> "custom", cornerRadius |-> NoCornerRadius, customShape |-> TriangleShape],
     [shape |-> "custom", cornerRadius |-> NoCornerRadius, customShape |-> NoCustomShape]}

PathArgs ==
    {[x |-> q.x, y |-> q.y, size |-> q.size, shape |-> f.shape,
      cornerRadius |-> f.cornerRadius, customShape |-> f.customShape] :
        q \in PathPositions, f \in PathForms}

CallPath ==
    /\ Len(pathCache) < PathCalls
    /\ \E a \in PathArgs :
           LET r == createShapePath(pathCache, a.x, a.y, a.size, a.shape,
                                    a.cornerRadius, a.customShape)
           IN  /\ pathCache' = r.cache
               /\ ret' = CallRecord(pathCache, a, r)
               /\ age' = AgeAfter(age, r)
    /\ UNCHANGED <<propVars, viewVars, elements, inputVars, gridAfter, exportClosure>>
    /\ exported' = NoExport
    /\ UNCHANGED <<editVars, touchVars>>
    /\ UNCHANGED appVars

NextPath == CallPath

SpecPath == InitCache /\ [][NextPath]_vars

\* The latest call asked for a rectangle with rounded corners.
RoundedCall == ret.called /\ ret.args.shape = "rectangle" /\ ret.args.cornerRadius.enabled

\* The path of the latest call's arguments with the corner percentages cr instead.
PathWithCorners(cr) ==
    ComputePath(ret.args.x, ret.args.y, ret.args.size, ret.args.shape, cr, ret.args.customShape)

(***************************************************************************)
(* C14: the rounded rectangle with topLeft 150 is the one with topLeft 100 *)
(* and the other inputs the same.                                          *)
(***************************************************************************)
ClampsAbove ==
    (RoundedCall /\ ret.args.cornerRadius.topLeft = 150)
        => ret.path = PathWithCorners([ret.args.cornerRadius EXCEPT !.topLeft = 100])

\* A call with topLeft 150 after a call with topLeft 100 at the same place: two cache
\* entries with one path.
SamePathTwice ==
    /\ RoundedCall
    /\ ret.args.cornerRadius.topLeft = 150
    /\ ~ret.hit
    /\ Len(pathCache) = 2
    /\ pathCache[1].key[1] = ret.args.x
    /\ pathCache[1].key[5][2] = 100
    /\ pathCache[1].path = pathCache[2].path

\* The four radii a rounded-rectangle path was built with, read back from it: the
\* distance from each corner of the cell to the two points where the straight edges
\* stop.  Each radius occurs at both of its edges; "sound" says the two agree and the
\* curves' control points are the cell's corners.
RadiiOf(path, x, y, size) ==
    [topLeft |-> path[1].args[1] - x,
     topRight |-> (x + size) - path[2].args[1],
     bottomRight |-> (y + size) - path[4].args[1],
     bottomLeft |-> path[6].args[1] - x,
     sound |->
        /\ path[1].args = <<path[9].args[3], y>>
        /\ path[8].args[1] - y = path[1].args[1] - x
        /\ path[3].args = <<x + size, y, x + size, y + ((x + size) - path[2].args[1])>>
        /\ path[5].args = <<x + size, y + size, x + size - ((y + size) - path[4].args[1]),
                            y + size>>
        /\ path[7].args = <<x, y + size, x, y + size - (path[6].args[1] - x)>>
        /\ path[9].args = <<x, y, path[1].args[1], y>>]

RetRadii == RadiiOf(ret.path, ret.args.x, ret.args.y, ret.args.size)

CornerNames == {"topLeft", "topRight", "bottomLeft", "bottomRight"}

(***************************************************************************)
(* C15: corner percentages are clamped to [0,100] on both sides: a rounded *)
(* rectangle requested with a percentage below 0 has the path of 0, and no *)
(* radius used in a path is negative.                                      *)
(***************************************************************************)
ClampsBelow ==
    RoundedCall =>
        /\ \A c \in CornerNames : RetRadii[c] >= 0
        /\ ret.args.cornerRadius.topLeft < 0
               => ret.path = PathWithCorners([ret.args.cornerRadius EXCEPT !.topLeft = 0])

(***************************************************************************)
(* C16: with cornerRadius enabled, each corner's radius is                 *)
(* min(size * percentage / 100, size / 2) of that corner's own percentage: *)
(* changing another corner's percentage leaves it unchanged.               *)
(***************************************************************************)
RadiusPerCorner ==
    RoundedCall =>
        /\ RetRadii.sound
        /\ \A c \in CornerNames :
               /\ RetRadii[c] = Min((ret.args.size * ret.args.cornerRadius[c]) \div 100,
                                    ret.args.size \div 2)
               /\ \A d \in CornerNames \ {c} : \A p \in CornerPercentages :
                      RadiiOf(PathWithCorners([ret.args.cornerRadius EXCEPT ![d] = p]),
                              ret.args.x, ret.args.y, ret.args.size)[c] = RetRadii[c]

\* A rounded rectangle with 25, 50, 100 and 0 percent: a quarter of the size, the cap
\* twice and 0.
RadiiOfOwnCorners ==
    /\ RoundedCall
    /\ ret.args.cornerRadius.topRight = 50
    /\ Cardinality({RetRadii[c] : c \in CornerNames}) = 3
    /\ RetRadii.topLeft < RetRadii.topRight
    /\ RetRadii.bottomRight = 0

(***************************************************************************)
(* C17: a percentage p in 0..100 gives the radius min(size * p / 100,      *)
(* size / 2): p percent of the whole size up to 50, and size / 2 from 50   *)
(* on, so 50 and 100 give the same radius.                                 *)
(***************************************************************************)
PercentOfSizeCapped ==
    RoundedCall =>
        \A c \in CornerNames :
            LET p == ret.args.cornerRadius[c]
                size == ret.args.size
            IN  /\ p \in 0..50 => RetRadii[c] * 100 = size * p
                /\ p \in 50..100 => RetRadii[c] * 2 = size

\* The statement with the radius as p percent of half the size: every p in 0..100
\* gives (size / 2) * p / 100, and only p = 100 gives size / 2.
PercentOfHalfSize ==
    RoundedCall =>
        \A c \in CornerNames :
            LET p == ret.args.cornerRadius[c]
                size == ret.args.size
            IN  p \in 0..100 =>
                    /\ RetRadii[c] * 200 = size * p
                    /\ RetRadii[c] * 2 = size => p = 100

\* A call with topLeft 50 after a call with topLeft 100 at the same place: the second
\* path is the first one.
HalfReachedAtFifty ==
    /\ RoundedCall
    /\ ret.args.cornerRadius.topLeft = 50
    /\ RetRadii.topLeft * 2 = ret.args.size
    /\ ~ret.hit
    /\ Len(pathCache) = 2
    /\ pathCache[1].key[1] = ret.args.x
    /\ pathCache[1].key[5][2] = 100
    /\ pathCache[1].path = ret.path

(***************************************************************************)
(* The geometry of a path: the points its commands visit.                  *)
(***************************************************************************)
\* The points of one command drawn from the current point at: H and V move along one
\* axis, Q adds its control point and its end point, Z returns to the start.
SegPoints(seg, at, start) ==
    CASE seg.cmd \in {"M", "L"} -> <<seg.args>>
      [] seg.cmd = "H" -> <<<<seg.args[1], at[2]>>>>
      [] seg.cmd = "V" -> <<<<at[1], seg.args[1]>>>>
      [] seg.cmd = "Q" -> <<<<seg.args[1], seg.args[2]>>, <<seg.args[3], seg.args[4]>>>>
      [] seg.cmd = "Z" -> <<start>>
      [] OTHER -> <<>>

RECURSIVE PointsFrom(_, _, _, _)
PointsFrom(path, i, at, start) ==
    IF i > Len(path) THEN <<>>
    ELSE LET pts == SegPoints(path[i], at, start)
             to == IF pts = <<>> THEN at ELSE pts[Len(pts)]
         IN  pts \o PointsFrom(path, i + 1, to, IF path[i].cmd = "M" THEN to ELSE start)

PathPoints(path) == PointsFrom(path, 1, <<0, 0>>, <<0, 0>>)

\* The corners of the outline: the points visited, a point repeated in a row once.
RECURSIVE Vertices(_)
Vertices(pts) ==
    IF Len(pts) <= 1 THEN pts
    ELSE IF pts[1] = pts[2] THEN Vertices(Tail(pts))
         ELSE <<pts[1]>> \o Vertices(Tail(pts))

BoundingBox(pts) ==
    LET xs == {pts[i][1] : i \in 1..Len(pts)}
        ys == {pts[i][2] : i \in 1..Len(pts)}
    IN  [left |-> CHOOSE v \in xs : \A w \in xs : v <= w,
         right |-> CHOOSE v \in xs : \A w \in xs : v >= w,
         top |-> CHOOSE v \in ys : \A w \in ys : v <= w,
         bottom |-> CHOOSE v \in ys : \A w \in ys : v >= w]

\* The latest call asked for a rectangle whose four radii are 0.
SquareCall ==
    /\ ret.called
    /\ ret.args.shape = "rectangle"
    /\ \/ ~ret.args.cornerRadius.enabled
       \/ \A c \in CornerNames : ret.args.cornerRadius[c] = 0

(***************************************************************************)
(* C18: a rectangle with all four radii 0, corner radius disabled or       *)
(* enabled with all percentages 0, has the bounding box                    *)
(* [x, x+size] x [y, y+size] and the four corners of that square.          *)
(***************************************************************************)
SquareOutline ==
    SquareCall =>
        LET x == ret.args.x
            y == ret.args.y
            size == ret.args.size
            pts == PathPoints(ret.path)
        IN  /\ BoundingBox(pts) =
                   [left |-> x, right |-> x + size, top |-> y, bottom |-> y + size]
            /\ Vertices(pts) = <<<<x, y>>, <<x + size, y>>, <<x + size, y + size>>,
                                 <<x, y + size>>, <<x, y>>>>

\* The square asked for with the corner radius enabled at 0 percent after the same
\* square with it disabled: two different strings with the same corners.
SquareBothWays ==
    /\ SquareCall
    /\ ret.args.cornerRadius.enabled
    /\ ~ret.hit
    /\ Len(pathCache) = 2
    /\ pathCache[1].key[1] = ret.args.x
    /\ pathCache[1].key[4] = "rectangle"
    /\ ~pathCache[1].key[5][1]
    /\ pathCache[1].path # ret.path
    /\ Vertices(PathPoints(pathCache[1].path)) = Vertices(PathPoints(ret.path))

(***************************************************************************)
(* The circle an arc command lies on.  "M sx,sy A r,r 0 1,1 ex,ey" with    *)
(* sy = ey draws the large clockwise arc from the start to the end: its    *)
(* centre is under the middle of the chord, at the distance                *)
(* sqrt(r^2 - (chord/2)^2) from it.  Lengths are doubled so that the       *)
(* middle of a chord of odd length is a whole number.                      *)
(***************************************************************************)
RECURSIVE IsqrtIn(_, _, _)
IsqrtIn(n, lo, hi) ==
    IF lo >= hi THEN lo
    ELSE LET mid == (lo + hi + 1) \div 2
         IN  IF mid * mid <= n THEN IsqrtIn(n, mid, hi) ELSE IsqrtIn(n, lo, mid - 1)

\* The largest k with k * k <= n, for n within 0 .. 4 * bound^2.
Isqrt(n, bound) == IsqrtIn(n, 0, 2 * bound)

ArcOf(path) ==
    LET sx == path[1].args[1]
        sy == path[1].args[2]
        r == path[2].args[1]
        ex == path[2].args[3]
        ey == path[2].args[4]
        drop2 == 4 * r * r - (sx - ex) * (sx - ex)
        whole == Isqrt(drop2, r)
    IN  [level |-> sy = ey /\ path[2].args[2] = r,
         radius |-> r,
         centreX2 |-> sx + ex,
         \* twice the centre's y lies in centreY2Low .. centreY2High
         centreY2Low |-> 2 * sy + whole,
         centreY2High |-> 2 * sy + (IF whole * whole = drop2 THEN whole ELSE whole + 1),
         exact |-> whole * whole = drop2]

CircleCall == ret.called /\ ret.args.shape = "circle"

\* The element the renderer emits for the cell of the latest call (lines 621-633).
RetElement == Outline(ret.args.shape, ret.args.x, ret.args.y, ret.args.size, ret.path)

(***************************************************************************)
(* C19: for shape circle the native circle element is centred at           *)
(* (x + size/2, y + size/2) with radius size/2; the cached path is a       *)
(* circle of radius size/2 whose centre is 0.0005 to the left of that      *)
(* point and less than 0.0005 above it.                                    *)
(***************************************************************************)
CircleNearCentre ==
    CircleCall =>
        LET x == ret.args.x
            y == ret.args.y
            size == ret.args.size
            arc == ArcOf(ret.path)
        IN  /\ RetElement = <<Seg("circle", <<x + size \div 2, y + size \div 2, size \div 2>>)>>
            /\ arc.level
            /\ arc.radius * 2 = size
            /\ arc.centreX2 = 2 * x + size - 1
            /\ arc.centreY2Low = 2 * y + size - 1
            /\ arc.centreY2High = 2 * y + size
            /\ ~arc.exact

\* The statement with both outlines centred exactly: the path's circle has its centre
\* at (x + size/2, y + size/2), so that its bounding box is [x, x+size] x [y, y+size].
CircleCentred ==
    CircleCall =>
        LET x == ret.args.x
            y == ret.args.y
            size == ret.args.size
            arc == ArcOf(ret.path)
        IN  /\ RetElement = <<Seg("circle", <<x + size \div 2, y + size \div 2, size \div 2>>)>>
            /\ arc.radius * 2 = size
            /\ arc.centreX2 = 2 * x + size
            /\ arc.centreY2Low = 2 * y + size
            /\ arc.centreX2 - 2 * arc.radius = 2 * x
            /\ arc.centreX2 + 2 * arc.radius = 2 * (x + size)

\* The scenario's call: a circle at x = y = 0 with size 10.
CircleAtOrigin ==
    /\ CircleCall
    /\ ret.args.x = 0
    /\ ret.args.y = 0
    /\ ret.args.size = 10000
    /\ RetElement = <<Seg("circle", <<5000, 5000, 5000>>)>>
    /\ ArcOf(ret.path).centreX2 = 9999

\* The latest call asked for the custom shape with a path of the caller's.
CustomCall == ret.called /\ ret.args.shape = "custom" /\ ret.args.customShape.path # ""

(***************************************************************************)
(* C20: for shape custom with a non-empty path of the caller's,            *)
(* createShapePath returns that string as it is, for every x, y and size.  *)
(***************************************************************************)
CustomVerbatim ==
    CustomCall =>
        /\ ret.path = <<[cmd |-> ret.args.customShape.path, args |-> <<>>]>>
        /\ \A q \in PathPositions :
               ComputePath(q.x, q.y, q.size, "custom", ret.args.cornerRadius,
                           ret.args.customShape) = ret.path

\* Two cells of different origin and size, each with its own cache entry, and one
\* outline for both.
CustomSameEverywhere ==
    /\ CustomCall
    /\ ~ret.hit
    /\ Len(pathCache) = 2
    /\ pathCache[1].key[4] = "custom"
    /\ pathCache[1].key[1] # ret.args.x
    /\ pathCache[1].key[3] # ret.args.size
    /\ pathCache[1].path = ret.path

(***************************************************************************)
(* C21: in the vector renderer and in the raster export, and in each of    *)
(* the passes glow, fill and bulb, cell (x, y) is drawn at the origin      *)
(* (x * (pixelSize + gridGap) + gridGap / 2,                               *)
(*  y * (pixelSize + gridGap) + gridGap / 2).                              *)
(***************************************************************************)
\* The origin in thousandths.
OriginOf(cell, ps, gap) ==
    <<cell[1] * (ps + gap) * 1000 + gap * 500, cell[2] * (ps + gap) * 1000 + gap * 500>>

CellOrigins ==
    /\ \A i \in 1..Len(elements) :
           elements[i].origin = OriginOf(elements[i].cell, pixelSize, gridGap)
    /\ exported.done =>
           \A i \in 1..Len(exported.calls) :
               exported.calls[i].origin =
                   OriginOf(exported.calls[i].cell, exported.read.pixelSize,
                            exported.read.gridGap)

\* A raster export and a render that both draw cell (1, 1) in the three passes.
ThreePassesOfOneCell ==
    /\ exported.done
    /\ exported.kind = "raster"
    /\ \A l \in {"glow", "crisp", "bulb"} :
           /\ \E i \in 1..Len(elements) :
                  elements[i].layer = l /\ elements[i].cell = <<1, 1>>
           /\ \E i \in 1..Len(exported.calls) :
                  exported.calls[i].layer = l /\ exported.calls[i].cell = <<1, 1>>

(***************************************************************************)
(* The bulb configuration changes under a mounted renderer.                *)
(***************************************************************************)
BulbFields == {"positionX", "positionY", "radius", "intensity"}

BulbValues == {0, 30}

\* The configuration with one field set to v.
WithField(bs, field, v) ==
    [f \in DOMAIN bs \cup {field} |-> IF f = field THEN v ELSE bs[f]]

\* The configuration without one field, as a project file may bring it (App.jsx
\* line 519 stores effects.bulbSettings as read).
WithoutField(bs, field) == [f \in DOMAIN bs \ {field} |-> bs[f]]

\* One field changes at a time.  bulbSettings is a dependency of renderPixels
\* (lines 705-711).
setBulbSettings ==
    /\ observer # "off"
    /\ \E field \in BulbFields :
           \/ \E v \in BulbValues : bulbSettings' = WithField(bulbSettings, field, v)
           \/ bulbSettings' = WithoutField(bulbSettings, field)
    /\ bulbSettings' # bulbSettings
    /\ UNCHANGED <<propVars, viewVars, inputVars, exportClosure, rendererType, showGrid,
                   colorHistory, importModal, imported>>
    /\ exported' = NoExport
    /\ UNCHANGED <<editVars, touchVars>>
    /\ Rerender

InitBulb ==
    /\ InitRender
    /\ container.width = 16
    /\ pixelShape = "rectangle"
    /\ \A y \in DOMAIN pixelData : \A x \in DOMAIN pixelData[y] : pixelData[y][x] = "#ff0000"

NextBulb ==
    \/ Mount
    \/ SetBulbEnabled
    \/ setBulbSettings

SpecBulb == InitBulb /\ [][NextBulb]_vars

(***************************************************************************)
(* C22: for every bulb configuration with fields in 0..100, the value 0    *)
(* included, the gradient is centred at (positionX%, positionY%) with      *)
(* radius radius%, its inner stop has opacity intensity / 100 and its      *)
(* outer stop opacity 0; a field takes its default only when it is absent. *)
(***************************************************************************)
GradientAsConfigured ==
    LET given(field, default) ==
            IF field \in DOMAIN bulbSettings THEN bulbSettings[field] ELSE default
        gradient == svgDocument[1].children[2]
    IN  /\ gradient.id = "bulbGradient"
        /\ gradient.cx = given("positionX", 50)
        /\ gradient.cy = given("positionY", 50)
        /\ gradient.r = given("radius", 50)
        /\ gradient.stops[1].stopOpacity = given("intensity", 0)
        /\ gradient.stops[2].stopOpacity = 0

(***************************************************************************)
(* The grid overlay is switched on and off while the viewport changes.     *)
(***************************************************************************)
\* showGrid is no dependency of renderPixels (lines 705-711): the pixels are not
\* rendered again, the grid lines are (line 478).
toggleGrid ==
    /\ observer # "off"
    /\ showGrid' = ~showGrid
    /\ UNCHANGED <<cacheVars, propVars, viewVars, elements, inputVars, gridAfter,
                   exportClosure, rendererType, bulbSettings, colorHistory, importModal,
                   imported>>
    /\ exported' = NoExport
    /\ UNCHANGED <<editVars, touchVars>>

NextGrid ==
    \/ Mount
    \/ EnvResize
    \/ ResizeObserverCallback
    \/ AnimationFrame
    \/ ChangeGrid
    \/ toggleGrid

SpecGrid == InitView /\ [][NextGrid]_vars

(***************************************************************************)
(* C23: when the grid overlay is on it comes after the pixel layers in the *)
(* output, and its lines are one vertical line for each cell boundary      *)
(* startX..endX and one horizontal line for each boundary startY..endY of  *)
(* the visible range, none for a boundary outside; when it is off there    *)
(* is no line.                                                             *)
(***************************************************************************)
ClassesOf(doc) == [i \in 1..Len(doc) |-> doc[i].class]

GridOverlayLast ==
    LET doc == svgDocument
        cellSize == pixelSize + gridGap
        area == visibleArea
    IN  IF showGrid
        THEN /\ ClassesOf(doc) = <<"defs", "pixels-layer", "interaction-layer", "grid-layer">>
             /\ doc[2].children = elements
             /\ LET lines == doc[4].children
                    keys == {lines[i].key : i \in 1..Len(lines)}
                IN  /\ keys = {<<"v", x>> : x \in area.startX..area.endX} \cup
                              {<<"h", y>> : y \in area.startY..area.endY}
                    /\ Len(lines) = Cardinality(keys)
                    /\ \A i \in 1..Len(lines) :
                           IF lines[i].key[1] = "v"
                           THEN /\ lines[i].x1 = lines[i].key[2] * cellSize * 1000 - 500
                                /\ lines[i].x2 = lines[i].x1
                                /\ lines[i].y1 = 0
                                /\ lines[i].y2 = totalHeight * 1000
                           ELSE /\ lines[i].y1 = lines[i].key[2] * cellSize * 1000 - 500
                                /\ lines[i].y2 = lines[i].y1
                                /\ lines[i].x1 = 0
                                /\ lines[i].x2 = totalWidth * 1000
        ELSE ClassesOf(doc) = <<"defs", "pixels-layer", "interaction-layer">>

\* The overlay is on while the visible range stops short of the grid's right edge:
\* fewer vertical lines than the grid has boundaries.
OverlayOfWindow ==
    /\ showGrid
    /\ observer # "off"
    /\ visibleArea.endX < gridWidth
    /\ Len(svgDocument[4].children) < (gridWidth + 1) + (gridHeight + 1)

(***************************************************************************)
(* C24: a vector export holds the glow filter and the bulb gradient        *)
(* definitions inline, and no element of it refers to a definition the     *)
(* exported document lacks, with glow and bulb on or off.                  *)
(***************************************************************************)
\* The id a filter or fill attribute refers to, "" for none.
RefOf(attribute) ==
    CASE attribute = "url(#glowFilter)" -> "glowFilter"
      [] attribute = "url(#bulbGradient)" -> "bulbGradient"
      [] OTHER -> ""

\* The children of the groups of a document with the class given.
ChildrenOf(doc, class) ==
    LET groups == SelectSeq(doc, LAMBDA g : g.class = class)
    IN  IF groups = <<>> THEN <<>> ELSE groups[1].children

DefinedIds(doc) ==
    LET defs == ChildrenOf(doc, "defs") IN {defs[i].id : i \in 1..Len(defs)}

DefsInline ==
    (exported.done /\ exported.kind = "vector") =>
        LET pixels == ChildrenOf(exported.document, "pixels-layer")
            ids == DefinedIds(exported.document)
        IN  /\ {"glowFilter", "bulbGradient"} \subseteq ids
            /\ pixels = exported.calls
            /\ \A i \in 1..Len(pixels) :
                   {RefOf(pixels[i].filter), RefOf(pixels[i].fill)} \subseteq ids \cup {""}

\* A vector export with glow and bulb on: elements that refer to the filter and
\* elements that refer to the gradient.
BothDefsReferred ==
    /\ exported.done
    /\ exported.kind = "vector"
    /\ \E i, j \in 1..Len(exported.calls) :
           /\ RefOf(exported.calls[i].filter) = "glowFilter"
           /\ RefOf(exported.calls[j].fill) = "bulbGradient"

(***************************************************************************)
(* C25: whenever performExport is invoked with the format svg, what is     *)
(* written under the .svg name is a vector document of type image/svg+xml  *)
(* cloned from the vector backend, whatever the renderer in use; never a   *)
(* raster image.                                                           *)
(***************************************************************************)
SvgExportIsVector ==
    (exported.done /\ exported.format = "svg") =>
        /\ exported.extension = "svg"
        /\ exported.kind = "vector"
        /\ exported.mimeType = "image/svg+xml"

(***************************************************************************)
(* C26: an export is a composite of the whole grid: the exported frame,    *)
(* vector or raster, holds a fill for every cell of the pixel grid that    *)
(* has a colour, whatever the visible range on screen.                     *)
(***************************************************************************)
FullGridExport ==
    exported.done =>
        \A y \in 0..(exported.read.height - 1) : \A x \in 0..(exported.read.width - 1) :
            ColorAt(exported.read.pixelGrid, x, y) # "" =>
                \E i \in 1..Len(exported.calls) :
                    /\ exported.calls[i].layer = "crisp"
                    /\ exported.calls[i].cell = <<x, y>>
                    /\ exported.calls[i].fill = ColorAt(exported.read.pixelGrid, x, y)

(***************************************************************************)
(* handleImageImport (App.jsx lines 990-1116): the settings, the sample,   *)
(* the quantizer and the new pixel grid.                                   *)
(***************************************************************************)
\* A setting as the modal hands it over: the characters of its text.
Digits == <<"0", "1", "2", "3", "4", "5", "6", "7", "8", "9">>

IsDigit(ch) == \E d \in 1..10 : Digits[d] = ch

DigitValue(ch) == (CHOOSE d \in 1..10 : Digits[d] = ch) - 1

NaN == [nan |-> TRUE, n |-> 0]

Number(n) == [nan |-> FALSE, n |-> n]

\* The value of the longest run of digits at the start of chars, from position i on.
RECURSIVE DigitsValue(_, _, _)
DigitsValue(chars, i, acc) ==
    IF i > Len(chars) \/ ~IsDigit(chars[i]) THEN acc
    ELSE DigitsValue(chars, i + 1, acc * 10 + DigitValue(chars[i]))

\* parseInt(text, 10): leading blanks are skipped, a sign is read, then the digits up
\* to the first character that is none; NaN when there is no digit there.
RECURSIVE parseInt(_)
parseInt(chars) ==
    IF chars = <<>> THEN NaN
    ELSE IF chars[1] = " " THEN parseInt(Tail(chars))
    ELSE LET signed == chars[1] \in {"-", "+"}
             body == IF signed THEN Tail(chars) ELSE chars
         IN  IF body = <<>> \/ ~IsDigit(body[1]) THEN NaN
             ELSE Number((IF chars[1] = "-" THEN -1 ELSE 1) * DigitsValue(body, 1, 0))

\* App.jsx line 1005.  A comparison with NaN is false.
ValidSettingsFromOne(targetWidth, targetHeight, colorLimit) ==
    /\ ~targetWidth.nan /\ targetWidth.n > 0
    /\ ~targetHeight.nan /\ targetHeight.n > 0
    /\ ~colorLimit.nan /\ colorLimit.n >= 1 /\ colorLimit.n <= 256

ValidSettings(targetWidth, targetHeight, colorLimit) ==
    /\ ~targetWidth.nan /\ targetWidth.n > 0
    /\ ~targetHeight.nan /\ targetHeight.n > 0
    /\ ~colorLimit.nan /\ colorLimit.n >= 2 /\ colorLimit.n <= 256

\* App.jsx line 1041: getImageData of the w x h canvas: the bytes r, g, b, a of each
\* pixel, row after row.  image[y][x] is the pixel drawImage put at (x, y).
getImageData(image, w, h) ==
    [i \in 1..(4 * w * h) |->
        LET at == (i - 1) \div 4
            px == image[at \div w][at % w]
        IN  CASE (i - 1) % 4 = 0 -> px.r
              [] (i - 1) % 4 = 1 -> px.g
              [] (i - 1) % 4 = 2 -> px.b
              [] OTHER -> px.a]

\* App.jsx lines 1042-1054: data[i] of the source is data[i + 1] here.
RECURSIVE SamplePixelsFrom(_, _, _)
SamplePixelsFrom(data, i, threshold) ==
    IF i >= Len(data) THEN <<>>
    ELSE LET r == data[i + 1]
             g == data[i + 2]
             b == data[i + 3]
             a == data[i + 4]
         IN  (IF a > threshold THEN <<[r |-> r, g |-> g, b |-> b, index |-> i \div 4]>>
              ELSE <<>>) \o SamplePixelsFrom(data, i + 4, threshold)

SamplePixelsFrom128(data) == SamplePixelsFrom(data, 0, 127)

SamplePixels(data) == SamplePixelsFrom(data, 0, 128)

(***************************************************************************)
(* kMeansClustering (utils/imageProcessing): k-means in RGB space with     *)
(* seeds at evenly spaced indices, as the specification describes it.      *)
(***************************************************************************)
IterationCap == 20

ColourOf(px) == [r |-> px.r, g |-> px.g, b |-> px.b]

Distance2(px, centre) ==
    (px.r - centre.r) * (px.r - centre.r) + (px.g - centre.g) * (px.g - centre.g)
        + (px.b - centre.b) * (px.b - centre.b)

\* The centroids taken from the samples at floor(i * n / k), i in 0 .. k - 1.
SeedCentroids(pixels, k) ==
    [i \in 1..k |-> ColourOf(pixels[((i - 1) * Len(pixels)) \div k + 1])]

\* The centroid of minimum squared distance, the lowest index among equals.
NearestCentroid(px, centroids) ==
    LET distances == [i \in 1..Len(centroids) |-> Distance2(px, centroids[i])]
        found == {distances[i] : i \in 1..Len(centroids)}
        least == CHOOSE d \in found : \A e \in found : d <= e
    IN  CHOOSE i \in 1..Len(centroids) :
            distances[i] = least /\ \A l \in 1..(i - 1) : distances[l] # least

AssignPixels(pixels, centroids) ==
    [j \in 1..Len(pixels) |-> NearestCentroid(pixels[j], centroids)]

RECURSIVE SumOver(_, _, _)
SumOver(values, picked, j) ==
    IF j > Len(values) THEN 0
    ELSE (IF picked[j] THEN values[j] ELSE 0) + SumOver(values, picked, j + 1)

\* Math.round of sum / count for count > 0 and sum >= 0.
RoundedMean(sum, count) == (2 * sum + count) \div (2 * count)

\* The pixel farthest from the centroid it is assigned to, the first among equals.
FarthestPixel(pixels, assignment, centroids) ==
    CHOOSE j \in 1..Len(pixels) :
        \A l \in 1..Len(pixels) :
            \/ Distance2(pixels[j], centroids[assignment[j]])
                   > Distance2(pixels[l], centroids[assignment[l]])
            \/ /\ Distance2(pixels[j], centroids[assignment[j]])
                      = Distance2(pixels[l], centroids[assignment[l]])
               /\ j <= l

\* The mean of each centroid's pixels; a centroid without pixels is seeded again from
\* the farthest pixel.
RecomputeCentroids(pixels, assignment, centroids) ==
    [i \in 1..Len(centroids) |->
        LET picked == [j \in 1..Len(pixels) |-> assignment[j] = i]
            count == SumOver([j \in 1..Len(pixels) |-> 1], picked, 1)
        IN  IF count = 0
            THEN ColourOf(pixels[FarthestPixel(pixels, assignment, centroids)])
            ELSE [r |-> RoundedMean(SumOver([j \in 1..Len(pixels) |-> pixels[j].r], picked, 1), count),
                  g |-> RoundedMean(SumOver([j \in 1..Len(pixels) |-> pixels[j].g], picked, 1), count),
                  b |-> RoundedMean(SumOver([j \in 1..Len(pixels) |-> pixels[j].b], picked, 1), count)]]

RECURSIVE kMeansIterate(_, _, _, _)
kMeansIterate(pixels, centroids, assignment, iteration) ==
    LET assigned == AssignPixels(pixels, centroids)
        moved == RecomputeCentroids(pixels, assigned, centroids)
    IN  IF assigned = assignment \/ iteration >= IterationCap
        THEN [centroids |-> moved, assignment |-> assigned]
        ELSE kMeansIterate(pixels, moved, assigned, iteration + 1)

\* The clusters: each centroid with the pixels assigned to it, in the input's order.
kMeansClustering(pixels, k) ==
    IF pixels = <<>> THEN <<>>
    ELSE LET final == kMeansIterate(pixels, SeedCentroids(pixels, k), <<>>, 1)
         IN  [i \in 1..k |->
                 [center |-> final.centroids[i],
                  pixels |-> SelectSeq(pixels, LAMBDA px :
                      \E j \in 1..Len(pixels) :
                          pixels[j] = px /\ final.assignment[j] = i)]]

(***************************************************************************)
(* The new pixel grid and the colour history (App.jsx lines 1059-1080).    *)
(***************************************************************************)
HexDigits == <<"0", "1", "2", "3", "4", "5", "6", "7", "8", "9",
               "a", "b", "c", "d", "e", "f">>

HexByte(n) == HexDigits[(n \div 16) + 1] \o HexDigits[(n % 16) + 1]

\* utils/colorUtils: "#rrggbb".
rgbToHex(r, g, b) == "#" \o HexByte(r) \o HexByte(g) \o HexByte(b)

\* Lines 1066-1072 for one pixel of a cluster: the cell, if inside the grid, takes
\* the cluster's colour.
PaintPixelTransposed(grid, px, hexColor, targetWidth) ==
    LET x == px.index \div targetWidth
        y == px.index % targetWidth
    IN  IF y < Len(grid) /\ x < Len(grid[1])
        THEN [grid EXCEPT ![y + 1][x + 1] = hexColor]
        ELSE grid

PaintPixel(grid, px, hexColor, targetWidth) ==
    LET x == px.index % targetWidth
        y == px.index \div targetWidth
    IN  IF y < Len(grid) /\ x < Len(grid[1])
        THEN [grid EXCEPT ![y + 1][x + 1] = hexColor]
        ELSE grid

RECURSIVE PaintPixels(_, _, _, _, _)
PaintPixels(grid, pixels, j, hexColor, targetWidth) ==
    IF j > Len(pixels) THEN grid
    ELSE PaintPixels(PaintPixel(grid, pixels[j], hexColor, targetWidth), pixels, j + 1,
                     hexColor, targetWidth)

RECURSIVE PaintClusters(_, _, _, _)
PaintClusters(grid, clusters, i, targetWidth) ==
    IF i > Len(clusters) THEN grid
    ELSE PaintClusters(
             PaintPixels(grid, clusters[i].pixels, 1,
                         rgbToHex(clusters[i].center.r, clusters[i].center.g,
                                  clusters[i].center.b), targetWidth),
             clusters, i + 1, targetWidth)

\* Lines 1060 and 1063-1073: rows 1..targetHeight of cells 1..targetWidth, null as "".
NewPixelGridFirstCluster(clusters, targetWidth, targetHeight) ==
    PaintClusters([y \in 1..targetHeight |-> [x \in 1..targetWidth |-> ""]],
                  IF clusters = <<>> THEN <<>> ELSE <<clusters[1]>>, 1, targetWidth)

NewPixelGrid(clusters, targetWidth, targetHeight) ==
    PaintClusters([y \in 1..targetHeight |-> [x \in 1..targetWidth |-> ""]],
                  clusters, 1, targetWidth)

\* The array as the grid the renderer reads: rows and cells from 0.
AsPixelData(grid) ==
    [y \in 0..(Len(grid) - 1) |-> [x \in 0..(Len(grid[1]) - 1) |-> grid[y + 1][x + 1]]]

\* [...new Set(list)]: the first occurrence of each value, in order.
RECURSIVE Distinct(_)
Distinct(list) ==
    IF list = <<>> THEN <<>>
    ELSE <<list[1]>> \o Distinct(SelectSeq(Tail(list), LAMBDA v : v # list[1]))

MAX_HISTORY_LENGTH == 256

\* Lines 1061-1065 and 1077-1080
NextColorHistory(clusters, prevHistory) ==
    LET quantizedColors ==
            Distinct([i \in 1..Len(clusters) |->
                rgbToHex(clusters[i].center.r, clusters[i].center.g, clusters[i].center.b)])
        combined == Distinct(quantizedColors \o prevHistory)
    IN  SubSeq(combined, 1, IF Len(combined) < MAX_HISTORY_LENGTH THEN Len(combined)
                            ELSE MAX_HISTORY_LENGTH)

(***************************************************************************)
(* An import: the file is chosen, the modal asks for the import, the image *)
(* loads or fails to.                                                      *)
(***************************************************************************)
ImageUrl == "data:image/png;base64"

Chars(a, b, c) == SelectSeq(<<a, b, c>>, LAMBDA ch : ch # "")

RawWidths == {Chars("2", "", ""), Chars("1", "", ""), Chars("0", "", ""),
              Chars("-", "1", ""), Chars("a", "", ""), Chars("2", "p", "x")}

RawHeights == {Chars("2", "", ""), Chars("1", "", ""), Chars("0", "", "")}

RawLimits == {Chars("2", "", ""), Chars("3", "", ""), Chars("1", "", ""),
              Chars("2", "5", "6"), Chars("2", "5", "7"), Chars("x", "", "")}

NoSettings == [present |-> FALSE, width |-> <<>>, height |-> <<>>, maxColors |-> <<>>]

\* What the modal may hand over; the largest colour limit goes with the 1 x 1 image.
ImportSettings ==
    {s \in {[present |-> TRUE, width |-> w, height |-> h, maxColors |-> c] :
                w \in RawWidths, h \in RawHeights, c \in RawLimits} :
        s.maxColors = Chars("2", "5", "6")
            => s.width = Chars("1", "", "") /\ s.height = Chars("1", "", "")}

\* The pixels drawImage may leave on the canvas: opaque black and white, a red just
\* above the alpha threshold and a green on it.
PixelValues ==
    {[r |-> 0, g |-> 0, b |-> 0, a |-> 255], [r |-> 255, g |-> 255, b |-> 255, a |-> 255],
     [r |-> 255, g |-> 0, b |-> 0, a |-> 129], [r |-> 0, g |-> 255, b |-> 0, a |-> 128]}

Images(w, h) == [0..(h - 1) -> [0..(w - 1) -> PixelValues]]

\* What the App holds when an import is asked for.
AppGrid ==
    [gridWidth |-> gridWidth, gridHeight |-> gridHeight, pixelData |-> pixelData,
     colorHistory |-> colorHistory, importModal |-> importModal]

\* resizeGrid (hooks/useArtworkState) sets the grid dimensions (App.jsx lines 1013-1015
\* and 1082); what it does to the cells is not in the source files: they stay, or
\* they are fitted to the new dimensions.
ResizedGrids(pd, w, h) ==
    {pd, [y \in 0..(h - 1) |-> [x \in 0..(w - 1) |-> ColorAt(pd, x, y)]]}

\* App.jsx lines 385-398
handleFileSelect ==
    /\ ~importModal.open
    /\ imported.pc = "idle"
    /\ importModal' = [open |-> TRUE, url |-> ImageUrl]
    /\ UNCHANGED <<cacheVars, propVars, viewVars, elements, inputVars, gridAfter,
                   exportClosure, rendererType, showGrid, bulbSettings, colorHistory,
                   imported>>
    /\ exported' = NoExport
    /\ UNCHANGED <<editVars, touchVars>>

\* App.jsx lines 990-1024: up to the await of the image.
handleImageImport ==
    /\ importModal.open
    /\ imported.pc \in {"idle", "rejected"}
    /\ \E croppedDataUrl \in {importModal.url, ""} :
       \E settings \in ImportSettings \cup {NoSettings} :
           LET targetWidth == parseInt(settings.width)
               targetHeight == parseInt(settings.height)
               colorLimit == parseInt(settings.maxColors)
               call == [croppedDataUrl |-> croppedDataUrl, settings |-> settings,
                        targetWidth |-> targetWidth, targetHeight |-> targetHeight,
                        colorLimit |-> colorLimit, before |-> AppGrid,
                        quantized |-> <<>>]
           IN  IF croppedDataUrl = "" \/ ~settings.present
               THEN /\ importModal' = [open |-> FALSE, url |-> ""]
                    /\ imported' = [pc |-> "aborted", call |-> call]
                    /\ UNCHANGED <<gridWidth, gridHeight, pixelData>>
               ELSE IF ~ValidSettings(targetWidth, targetHeight, colorLimit)
               THEN /\ imported' = [pc |-> "rejected", call |-> call]
                    /\ UNCHANGED <<gridWidth, gridHeight, pixelData, importModal>>
               ELSE /\ gridWidth' = targetWidth.n
                    /\ gridHeight' = targetHeight.n
                    /\ pixelData' \in ResizedGrids(pixelData, targetWidth.n, targetHeight.n)
                    /\ imported' = [pc |-> "loading", call |-> call]
                    /\ UNCHANGED importModal
    /\ gridAfter' = pixelData'
    /\ UNCHANGED <<cacheVars, pixelSize, gridGap, pixelShape, cornerRadius, customShape,
                   glowEnabled, bulbEnabled, viewVars, elements, inputVars,
                   exportClosure, rendererType, showGrid, bulbSettings, colorHistory>>
    /\ exported' = NoExport
    /\ UNCHANGED <<editVars, touchVars>>

\* App.jsx lines 1020-1021 and 1026-1091: the image has loaded, the rest of the
\* handler runs.
ImageLoaded ==
    /\ imported.pc = "loading"
    /\ LET targetWidth == imported.call.targetWidth.n
           targetHeight == imported.call.targetHeight.n
           colorLimit == imported.call.colorLimit.n
       IN  \E image \in Images(targetWidth, targetHeight) :
               LET pixels == SamplePixels(getImageData(image, targetWidth, targetHeight))
                   clusters == kMeansClustering(pixels, colorLimit)
                   newPixelGrid == NewPixelGrid(clusters, targetWidth, targetHeight)
               IN  /\ pixelData' = AsPixelData(newPixelGrid)
                   /\ colorHistory' = NextColorHistory(clusters, colorHistory)
                   /\ importModal' = [open |-> FALSE, url |-> ""]
                   /\ imported' = [pc |-> "done",
                                   call |-> [imported.call EXCEPT !.quantized =
                                       <<[pixels |-> pixels, k |-> colorLimit]>>],
                                   image |-> image, pixels |-> pixels,
                                   clusters |-> clusters, newPixelGrid |-> newPixelGrid,
                                   hasDrawn |-> TRUE]
    /\ gridAfter' = pixelData'
    /\ UNCHANGED <<cacheVars, gridWidth, gridHeight, pixelSize, gridGap, pixelShape,
                   cornerRadius, customShape, glowEnabled, bulbEnabled, viewVars,
                   elements, inputVars, exportClosure, rendererType, showGrid,
                   bulbSettings>>
    /\ exported' = NoExport
    /\ hasDrawn' = TRUE
    /\ UNCHANGED <<lastActionType, isInitializedRef, history, selectionArea, copyBuffer,
                   activeColor, pending, operations, keyed, touchVars>>

\* App.jsx lines 1020-1022, 1032-1034 and 1096-1102: the image does not load or the
\* canvas gives no context; the catch block reports it.
ImageFailed ==
    /\ imported.pc = "loading"
    /\ imported' = [pc |-> "failed", call |-> imported.call]
    /\ UNCHANGED <<cacheVars, propVars, viewVars, elements, inputVars, gridAfter,
                   exportClosure, rendererType, showGrid, bulbSettings, colorHistory,
                   importModal>>
    /\ exported' = NoExport
    /\ UNCHANGED <<editVars, touchVars>>

\* The App with the canvas backend in use (the default, App.jsx line 540), a 1 x 1
\* grid and one colour used.
InitImport ==
    /\ InitCacheVars
    /\ InitPointerVars
    /\ InitViewVars
    /\ rendererType = "canvas"
    /\ showGrid = FALSE
    /\ bulbSettings = DefaultBulbSettings
    /\ colorHistory = <<"#ffffff">>
    /\ importModal = [open |-> FALSE, url |-> ""]
    /\ imported = NoImport
    /\ gridWidth = 1
    /\ gridHeight = 1
    /\ pixelSize = 1
    /\ gridGap = 0
    /\ pixelData = [y \in 0..0 |-> [x \in 0..0 |-> "#ffffff"]]
    /\ pixelShape = "rectangle"
    /\ cornerRadius = NoCornerRadius
    /\ customShape = NoCustomShape
    /\ glowEnabled = FALSE
    /\ bulbEnabled = FALSE
    /\ elements = <<>>
    /\ gridAfter = pixelData

NextImport ==
    \/ handleFileSelect
    \/ handleImageImport
    \/ ImageLoaded
    \/ ImageFailed

SpecImport == InitImport /\ [][NextImport]_vars

(***************************************************************************)
(* The import's claims, checked in SpecImport.                             *)
(***************************************************************************)
ImportWidth == imported.call.targetWidth.n

ImportHeight == imported.call.targetHeight.n

\* The indices of the sample, in order.
SampleIndices == [j \in 1..Len(imported.pixels) |-> imported.pixels[j].index]

\* C27: the sample handed to the quantizer holds exactly the pixels of the resized
\* image whose alpha is above 128, each once, with its colour and the row-major
\* index y * targetWidth + x.
SampleIsOpaquePixels ==
    imported.pc = "done" =>
        /\ imported.call.quantized =
               <<[pixels |-> imported.pixels, k |-> imported.call.colorLimit.n]>>
        /\ \A y \in 0..(ImportHeight - 1) : \A x \in 0..(ImportWidth - 1) :
               Cardinality({j \in 1..Len(imported.pixels) :
                               SampleIndices[j] = y * ImportWidth + x})
                   = IF imported.image[y][x].a > 128 THEN 1 ELSE 0
        /\ \A j \in 1..Len(imported.pixels) :
               LET x == SampleIndices[j] % ImportWidth
                   y == SampleIndices[j] \div ImportWidth
               IN  /\ y \in 0..(ImportHeight - 1)
                   /\ imported.pixels[j].r = imported.image[y][x].r
                   /\ imported.pixels[j].g = imported.image[y][x].g
                   /\ imported.pixels[j].b = imported.image[y][x].b

\* A 2 x 2 image with a pixel of alpha 128, one of alpha 129 and an opaque one.
SampleAroundThreshold ==
    /\ imported.pc = "done"
    /\ ImportWidth = 2
    /\ ImportHeight = 2
    /\ imported.image[0][1].a = 128
    /\ imported.image[1][0].a = 129
    /\ imported.image[1][1].a = 255
    /\ Len(imported.pixels) >= 2

\* The clusters that list the cell of a linear index.
ClustersOf(index) ==
    {i \in 1..Len(imported.clusters) :
        \E j \in 1..Len(imported.clusters[i].pixels) :
            imported.clusters[i].pixels[j].index = index}

CentreColour(i) ==
    rgbToHex(imported.clusters[i].center.r, imported.clusters[i].center.g,
             imported.clusters[i].center.b)

\* C28: after a successful import the grid has targetHeight rows of targetWidth
\* cells; a cell whose linear index is in a cluster's member list holds that
\* cluster's centre colour at (index mod targetWidth, floor(index / targetWidth)),
\* every other cell is empty.
NewGridHoldsCentres ==
    imported.pc = "done" =>
        /\ gridWidth = ImportWidth
        /\ gridHeight = ImportHeight
        /\ DOMAIN pixelData = 0..(ImportHeight - 1)
        /\ \A y \in 0..(ImportHeight - 1) :
               /\ DOMAIN pixelData[y] = 0..(ImportWidth - 1)
               /\ \A x \in 0..(ImportWidth - 1) :
                      /\ \A i \in ClustersOf(y * ImportWidth + x) :
                             pixelData[y][x] = CentreColour(i)
                      /\ ClustersOf(y * ImportWidth + x) = {} => pixelData[y][x] = ""

\* A 2 x 2 import with an empty cell and two colours, the cells of the first row
\* differing from those of the first column.
GridOfTwoCentres ==
    /\ imported.pc = "done"
    /\ ImportWidth = 2
    /\ ImportHeight = 2
    /\ pixelData[0][0] = ""
    /\ pixelData[0][1] # ""
    /\ pixelData[1][0] # ""
    /\ pixelData[0][1] # pixelData[1][0]

\* The parsed settings the check of line 1005 lets through.
NumericSettings ==
    /\ ~imported.call.targetWidth.nan
    /\ ~imported.call.targetHeight.nan
    /\ ~imported.call.colorLimit.nan
    /\ imported.call.targetWidth.n > 0
    /\ imported.call.targetHeight.n > 0
    /\ imported.call.colorLimit.n \in 2..256

\* C29: the quantizer is never called with a colour limit outside 2..256 or with a
\* width or height that is not a positive number: such settings are rejected before
\* any call, and the rejection leaves the grid dimensions, the pixel grid, the
\* colour history and the import modal as they were.
SettingsValidated ==
    /\ imported.pc \in {"loading", "done", "failed"} => NumericSettings
    /\ imported.pc = "rejected" =>
           /\ ~NumericSettings
           /\ imported.call.quantized = <<>>
           /\ AppGrid = imported.call.before
    /\ imported.pc # "idle" =>
           \A c \in 1..Len(imported.call.quantized) :
               NumericSettings /\ imported.call.quantized[c].k \in 2..256
    /\ (imported.pc \notin {"idle", "aborted"} /\ ~NumericSettings)
           => imported.pc = "rejected"

\* A colour limit of 1 is rejected with the modal open.
LimitOfOneRejected ==
    /\ imported.pc = "rejected"
    /\ imported.call.colorLimit = Number(1)
    /\ imported.call.targetWidth = Number(2)
    /\ importModal.open

\* C30: the member lists of the clusters partition the sample (each sampled pixel
\* is in exactly one list and the lists hold nothing else), so every sampled cell
\* of the imported grid receives exactly one colour, that of its cluster.
ClustersPartitionSample ==
    imported.pc = "done" =>
        /\ \A j \in 1..Len(imported.pixels) :
               /\ Cardinality({m \in {<<i, l>> : i \in 1..Len(imported.clusters),
                                                 l \in 1..Len(imported.pixels)} :
                                  /\ m[2] <= Len(imported.clusters[m[1]].pixels)
                                  /\ imported.clusters[m[1]].pixels[m[2]]
                                         = imported.pixels[j]}) = 1
               /\ LET x == SampleIndices[j] % ImportWidth
                      y == SampleIndices[j] \div ImportWidth
                  IN  /\ pixelData[y][x] # ""
                      /\ \E i \in ClustersOf(SampleIndices[j]) :
                             /\ ClustersOf(SampleIndices[j]) = {i}
                             /\ pixelData[y][x] = CentreColour(i)
        /\ \A i \in 1..Len(imported.clusters) :
               \A l \in 1..Len(imported.clusters[i].pixels) :
                   \E j \in 1..Len(imported.pixels) :
                       imported.clusters[i].pixels[l] = imported.pixels[j]

\* Four sampled pixels in three clusters that all have members.
ThreeClustersOfFour ==
    /\ imported.pc = "done"
    /\ Len(imported.pixels) = 4
    /\ Len(imported.clusters) = 3
    /\ \A i \in 1..3 : imported.clusters[i].pixels # <<>>

(***************************************************************************)
(* C35: a raster export draws with the effect configuration current when   *)
(* the export is invoked: the glow pass is drawn if and only if glow is    *)
(* enabled then, the bulb pass if and only if bulb is enabled then.        *)
(***************************************************************************)
ExportUsesCurrentEffects ==
    (exported.done /\ exported.kind = "raster") =>
        /\ exported.read.glowEnabled = glowEnabled
        /\ exported.read.bulbEnabled = bulbEnabled
        /\ (\E i \in 1..Len(exported.calls) : exported.calls[i].layer = "glow")
               => glowEnabled
        /\ (\E i \in 1..Len(exported.calls) : exported.calls[i].layer = "bulb")
               => bulbEnabled
        /\ \A i \in 1..Len(exported.calls) :
               exported.calls[i].layer = "crisp" =>
                   /\ glowEnabled => \E j \in 1..Len(exported.calls) :
                          /\ exported.calls[j].layer = "glow"
                          /\ exported.calls[j].cell = exported.calls[i].cell
                   /\ bulbEnabled => \E j \in 1..Len(exported.calls) :
                          /\ exported.calls[j].layer = "bulb"
                          /\ exported.calls[j].cell = exported.calls[i].cell

(***************************************************************************)
(* C36: an import is all-or-nothing: while the image loads and after the   *)
(* import has failed past the validation, the grid dimensions and the      *)
(* pixel grid are those of before the import; the dimensions change only   *)
(* together with the new pixel grid.                                       *)
(***************************************************************************)
ImportAllOrNothing ==
    imported.pc \in {"loading", "failed"} =>
        /\ gridWidth = imported.call.before.gridWidth
        /\ gridHeight = imported.call.before.gridHeight
        /\ pixelData = imported.call.before.pixelData

(***************************************************************************)
(* C34: a pending viewport update is run unless a newer viewport update    *)
(* replaces it, and a pending pointer-move delivery is run unless a newer  *)
(* pointer move replaces it: a pointer move does not drop the pending      *)
(* viewport update, a resize does not drop the pending pointer delivery.   *)
(* A change of the grid's props, whose effect cleanup cancels the frame    *)
(* and measures at once, is left aside.                                    *)
(***************************************************************************)
FrameKind(f) == IF f.callback = "updateViewport" THEN "viewport" ELSE "pointer"

PendingKeptStep ==
    \A f \in frames \ frames' :
        \/ <<gridWidth, gridHeight, pixelSize, gridGap>>'
               # <<gridWidth, gridHeight, pixelSize, gridGap>>
        \/ FrameRuns(f)
        \/ \E g \in frames' \ frames : FrameKind(g) = FrameKind(f)

PendingKept == [][PendingKeptStep]_vars

(***************************************************************************)
(* The touch gestures: fingers land, move and lift one at a time, the      *)
(* timeout of a touchstart and the animation frames run in between.        *)
(***************************************************************************)
\* The fingers the surface follows.
MaxTouches == 2

\* The deliveries of one gesture the model follows.
MaxGestureLog == 4

\* What the parent is handed, with the fingers down and whether the gesture has had
\* two fingers down at once.
Logged(deliveries, fingers, multi) ==
    [i \in 1..Len(deliveries) |->
        [callback |-> deliveries[i].callback, touches |-> fingers, multi |-> multi]]

\* SVGRenderer.jsx lines 271-317: the touchstart of one more finger.
handleTouchStart ==
    /\ observer # "off"
    /\ touches < MaxTouches
    /\ touches' = touches + 1
    /\ \E e \in TouchEvents :
           /\ e.touches = touches'
           /\ IF e.touches > 1
              THEN /\ multiTouchRef' = TRUE
                   /\ touchTimeoutRef' = NoEvent
              ELSE /\ touchTimeoutRef' = e
                   /\ UNCHANGED multiTouchRef
    /\ gesture' = IF touches = 0 THEN NoGesture ELSE [gesture EXCEPT !.multi = TRUE]
    /\ UNCHANGED <<cacheVars, propVars, viewVars, elements, requested, delivered,
                   gridAfter, exportClosure>>
    /\ exported' = NoExport
    /\ UNCHANGED editVars
    /\ UNCHANGED appVars

\* Lines 289-316: the timeout of the touchstart runs, 20 ms after it.
TouchTimeout ==
    /\ touchTimeoutRef # NoEvent
    /\ touchTimeoutRef' = NoEvent
    /\ LET coords == getGridCoordinates(touchTimeoutRef,
                                        <<gridWidth, gridHeight, pixelSize, gridGap>>,
                                        totalWidth, container.svgWidth)
           handed == IF multiTouchRef THEN <<>>
                     ELSE <<Delivery("onCanvasMouseDown", coords, 1)>>
       IN  /\ delivered' = IF handed = <<>> THEN delivered ELSE handed
           /\ gesture' = [gesture EXCEPT !.log =
                  @ \o Logged(handed, touches, gesture.multi /\ touches > 0)]
    /\ UNCHANGED <<cacheVars, propVars, viewVars, elements, multiTouchRef, requested,
                   gridAfter, exportClosure, touches>>
    /\ exported' = NoExport
    /\ UNCHANGED editVars
    /\ UNCHANGED appVars

\* A finger on the surface moves.
TouchMove ==
    /\ touches > 0
    /\ \E e \in TouchEvents : e.touches = touches /\ handleTouchMoveOn(e)
    /\ UNCHANGED touchVars

\* A finger is lifted.
TouchEnd ==
    /\ touches > 0
    /\ touches' = touches - 1
    /\ \E e \in TouchEndEvents :
           /\ e.touches = touches'
           /\ handleTouchEndOn(e)
           /\ gesture' = [gesture EXCEPT !.log =
                  @ \o Logged(TouchEndDeliveries(e), touches', gesture.multi)]
    /\ UNCHANGED touchTimeoutRef

\* The frame a touchmove requested runs.
TouchFrame ==
    /\ Len(gesture.log) < MaxGestureLog
    /\ \E f \in frames :
           /\ PointerFrameOf(f)
           /\ gesture' = [gesture EXCEPT !.log =
                  @ \o Logged(delivered', touches, gesture.multi /\ touches > 0)]
    /\ UNCHANGED <<touchTimeoutRef, touches>>

NextTouch ==
    \/ Mount
    \/ handleTouchStart
    \/ TouchTimeout
    \/ TouchMove
    \/ TouchEnd
    \/ TouchFrame

SpecTouch == InitFrames /\ [][NextTouch]_vars

(***************************************************************************)
(* C32: in a gesture of a single finger, whatever the time between the     *)
(* touchstart and the touchend, the canvas is handed mouse-down before     *)
(* mouse-up, and no mouse-down once the finger has been lifted.            *)
(***************************************************************************)
TapDownBeforeUp ==
    ~gesture.multi =>
        \A i \in 1..Len(gesture.log) :
            /\ gesture.log[i].callback = "onCanvasMouseUp" =>
                   \E j \in 1..(i - 1) : gesture.log[j].callback = "onCanvasMouseDown"
            /\ gesture.log[i].callback = "onCanvasMouseDown" => gesture.log[i].touches > 0

(***************************************************************************)
(* C33: a gesture in which two fingers were down at the same time hands    *)
(* nothing to the parent from the moment the second finger is down until   *)
(* all fingers are lifted, the lifting of the last finger included: no     *)
(* onCanvasMouseDown, onCanvasMouseMove, onCanvasMouseUp or onClick.       *)
(***************************************************************************)
MultiTouchSilent ==
    \A i \in 1..Len(gesture.log) : ~gesture.log[i].multi

(***************************************************************************)
(* The App's editing state.  A handler reads the state of the latest       *)
(* render (what its closure holds) and queues updates; the next render     *)
(* applies them in order and runs the effects.                             *)
(***************************************************************************)
\* The draw starts and grid-edge operations one behaviour carries out.
MaxOperations == 4

EdgeOps == {"addRowTop", "addRowBottom", "removeRowTop", "removeRowBottom",
            "addColLeft", "addColRight", "removeColLeft", "removeColRight"}

\* The guards of the remove operations (App.jsx lines 288, 304, 350, 367).
EdgeAllowed(op, w, h) ==
    CASE op \in {"removeRowTop", "removeRowBottom"} -> h > 1
      [] op \in {"removeColLeft", "removeColRight"} -> w > 1
      [] OTHER -> TRUE

\* The size of newGrid.
NewWidth(op, w) ==
    CASE op \in {"addColLeft", "addColRight"} -> w + 1
      [] op \in {"removeColLeft", "removeColRight"} -> w - 1
      [] OTHER -> w

NewHeight(op, h) ==
    CASE op \in {"addRowTop", "addRowBottom"} -> h + 1
      [] op \in {"removeRowTop", "removeRowBottom"} -> h - 1
      [] OTHER -> h

\* The copy loops read pixelGrid[y][x] for these rows and columns; a row the grid
\* does not have makes the read throw.
CopiedRows(op, h) ==
    CASE op = "removeRowTop" -> 1..(h - 1)
      [] op = "removeRowBottom" -> 0..(h - 2)
      [] OTHER -> 0..(h - 1)

\* App.jsx lines 258-380: newGrid, filled with null and then copied into from the
\* pixelGrid and gridDimensions of the closure.
NewGrid(op, pg, w, h) ==
    [y \in 0..(NewHeight(op, h) - 1) |-> [x \in 0..(NewWidth(op, w) - 1) |->
        CASE op = "addRowTop" -> IF y >= 1 THEN ColorAt(pg, x, y - 1) ELSE ""
          [] op = "addRowBottom" -> IF y < h THEN ColorAt(pg, x, y) ELSE ""
          [] op = "removeRowTop" -> ColorAt(pg, x, y + 1)
          [] op = "removeRowBottom" -> ColorAt(pg, x, y)
          [] op = "addColLeft" -> IF x >= 1 THEN ColorAt(pg, x - 1, y) ELSE ""
          [] op = "addColRight" -> IF x < w THEN ColorAt(pg, x, y) ELSE ""
          [] op = "removeColLeft" -> ColorAt(pg, x + 1, y)
          [] op = "removeColRight" -> ColorAt(pg, x, y)]]

\* A queued state update.
Update(name, v) == [set |-> name, value |-> v]

\* The state updates of the queue that change the grid or its dimensions.
GridUpdates(ups) ==
    {i \in 1..Len(ups) : ups[i].set \in {"pixelGrid", "gridDimensions"}}

\* What an operation found: the state of the latest render, and whether updates of
\* the grid were waiting for the next one.
Operation(op) ==
    [op |-> op, pixelGrid |-> pixelData, width |-> gridWidth, height |-> gridHeight,
     fresh |-> GridUpdates(pending) = {}]

\* A select of a colour (useToolState): the colour becomes the active one and the
\* first of the history.
selectColor(color, colors) ==
    <<color>> \o SelectSeq(colors, LAMBDA c : c # color)

\* One update applied to the state st.
ApplyUpdate(st, u) ==
    CASE u.set = "pixelGrid" -> [st EXCEPT !.pixelGrid = u.value]
      [] u.set = "gridDimensions" ->
             [st EXCEPT !.width = @ + u.value[1], !.height = @ + u.value[2]]
      [] u.set = "lastActionType" -> [st EXCEPT !.lastActionType = u.value]
      [] u.set = "hasDrawn" -> [st EXCEPT !.hasDrawn = u.value]
      [] u.set = "copyBuffer" -> [st EXCEPT !.copyBuffer = u.value]
      [] u.set = "selectionArea" -> [st EXCEPT !.selectionArea = u.value]
      [] u.set = "selectColor" ->
             [st EXCEPT !.activeColor = u.value,
                        !.colorHistory = selectColor(u.value, @)]

RECURSIVE ApplyUpdates(_, _, _)
ApplyUpdates(st, ups, i) ==
    IF i > Len(ups) THEN st ELSE ApplyUpdates(ApplyUpdate(st, ups[i]), ups, i + 1)

\* The state a render works with.
AppState ==
    [pixelGrid |-> pixelData, width |-> gridWidth, height |-> gridHeight,
     lastActionType |-> lastActionType, hasDrawn |-> hasDrawn,
     copyBuffer |-> copyBuffer, selectionArea |-> selectionArea,
     activeColor |-> activeColor, colorHistory |-> colorHistory]

\* The entry the effects hand to pushHistory (App.jsx lines 200-204, 215-219, 229-233).
HistoryEntry(st, type) ==
    [pixelGrid |-> st.pixelGrid, width |-> st.width, height |-> st.height, type |-> type]

\* App.jsx lines 197-238: the three effects after the render of st.  The draw and
\* grid_change effects run when one of their dependencies changed.
EffectPushes(st, ranBefore, depsChanged) ==
    (IF ~ranBefore THEN <<HistoryEntry(st, "initial")>> ELSE <<>>) \o
    (IF depsChanged /\ st.lastActionType \in {"draw", "grid_change"}
     THEN <<HistoryEntry(st, st.lastActionType)>> ELSE <<>>)

\* The App renders: the queued updates are applied, then the effects run.  Whether
\* pushHistory is the same function as at the render before is the hook's matter.
Render ==
    /\ pending # <<>> \/ ~isInitializedRef
    /\ LET st == ApplyUpdates(AppState, pending, 1)
       IN  /\ pixelData' = st.pixelGrid
           /\ gridWidth' = st.width
           /\ gridHeight' = st.height
           /\ lastActionType' = st.lastActionType
           /\ hasDrawn' = st.hasDrawn
           /\ copyBuffer' = st.copyBuffer
           /\ selectionArea' = st.selectionArea
           /\ activeColor' = st.activeColor
           /\ colorHistory' = st.colorHistory
           /\ \E pushHistoryChanged \in BOOLEAN :
                  LET depsChanged == \/ ~isInitializedRef
                                     \/ pushHistoryChanged
                                     \/ GridUpdates(pending) # {}
                                     \/ st.lastActionType # lastActionType
                      pushes == EffectPushes(st, isInitializedRef, depsChanged)
                  IN  /\ history' = history \o pushes
                      /\ pending' = IF \E i \in 1..Len(pushes) : pushes[i].type # "initial"
                                    THEN <<Update("lastActionType", "")>>
                                    ELSE <<>>
    /\ isInitializedRef' = TRUE
    /\ gridAfter' = pixelData'
    /\ UNCHANGED <<cacheVars, pixelSize, gridGap, pixelShape, cornerRadius, customShape,
                   glowEnabled, bulbEnabled, viewVars, elements, inputVars,
                   exportClosure, rendererType, showGrid, bulbSettings, importModal,
                   imported, operations, keyed, touchVars>>
    /\ exported' = NoExport

\* What the handlers of the editing state leave alone.
HandlerUnchanged ==
    /\ UNCHANGED <<cacheVars, propVars, viewVars, elements, inputVars, gridAfter,
                   exportClosure, appVars, touchVars>>
    /\ UNCHANGED <<lastActionType, isInitializedRef, selectionArea, copyBuffer,
                   activeColor, hasDrawn>>
    /\ exported' = NoExport

\* App.jsx lines 249-254
notifyDrawingStarted ==
    /\ isInitializedRef
    /\ Len(operations) < MaxOperations
    /\ pending' = pending \o (IF ~hasDrawn THEN <<Update("hasDrawn", TRUE)>> ELSE <<>>)
                          \o <<Update("lastActionType", "draw")>>
    /\ operations' = Append(operations, Operation("draw"))
    /\ UNCHANGED <<history, keyed>>
    /\ HandlerUnchanged

\* App.jsx lines 258-380: one of the eight grid-edge operations.
EdgeOperation(op) ==
    /\ isInitializedRef
    /\ Len(operations) < MaxOperations
    /\ EdgeAllowed(op, gridWidth, gridHeight)
    /\ CopiedRows(op, gridHeight) \subseteq DOMAIN pixelData
    /\ pending' = pending \o
           <<Update("pixelGrid", NewGrid(op, pixelData, gridWidth, gridHeight)),
             Update("gridDimensions", <<NewWidth(op, gridWidth) - gridWidth,
                                        NewHeight(op, gridHeight) - gridHeight>>),
             Update("lastActionType", "grid_change")>>
    /\ operations' = Append(operations, Operation(op))
    /\ UNCHANGED <<history, keyed>>
    /\ HandlerUnchanged

\* The App with the canvas backend in use and a grid of two columns and one row,
\* the first cell red.
InitEdit ==
    /\ InitCacheVars
    /\ InitPointerVars
    /\ InitViewVars
    /\ rendererType = "canvas"
    /\ showGrid = FALSE
    /\ bulbSettings = DefaultBulbSettings
    /\ colorHistory = <<"#000000", "#ffffff">>
    /\ importModal = [open |-> FALSE, url |-> ""]
    /\ imported = NoImport
    /\ gridWidth = 2
    /\ gridHeight = 1
    /\ pixelSize = 1
    /\ gridGap = 0
    /\ pixelData = [y \in 0..0 |-> [x \in 0..1 |-> IF x = 0 THEN "#ff0000" ELSE ""]]
    /\ pixelShape = "rectangle"
    /\ cornerRadius = NoCornerRadius
    /\ customShape = NoCustomShape
    /\ glowEnabled = FALSE
    /\ bulbEnabled = FALSE
    /\ elements = <<>>
    /\ gridAfter = pixelData

NextEdit ==
    \/ Render
    \/ notifyDrawingStarted
    \/ \E op \in EdgeOps : EdgeOperation(op)

SpecEdit == InitEdit /\ [][NextEdit]_vars

(***************************************************************************)
(* C31: after any sequence of the eight grid-edge operations, several      *)
(* before one render included, the pixel grid has exactly                  *)
(* gridDimensions.height rows of exactly gridDimensions.width entries, and *)
(* height and width are at least 1.                                        *)
(***************************************************************************)
GridMatchesDimensions ==
    /\ gridWidth >= 1
    /\ gridHeight >= 1
    /\ DOMAIN pixelData = 0..(gridHeight - 1)
    /\ \A y \in DOMAIN pixelData : DOMAIN pixelData[y] = 0..(gridWidth - 1)

(***************************************************************************)
(* C37: adding a row or column at an edge and then removing the row or     *)
(* column at the same edge, each after a render, restores the pixel grid   *)
(* and the dimensions exactly; an add moves the existing content one cell  *)
(* away from the top or left edge, or leaves it in place at the bottom or  *)
(* right edge, and fills the new row or column with empty cells.           *)
(***************************************************************************)
RemoveOf(op) ==
    CASE op = "addRowTop" -> "removeRowTop"
      [] op = "addRowBottom" -> "removeRowBottom"
      [] op = "addColLeft" -> "removeColLeft"
      [] op = "addColRight" -> "removeColRight"
      [] OTHER -> ""

\* The state the operation i left, once rendered: what the next operation found, or
\* the state of the latest render.
RenderedAfter(i) ==
    IF i < Len(operations) THEN operations[i + 1].fresh ELSE GridUpdates(pending) = {}

StateAfter(i) ==
    IF i < Len(operations) THEN operations[i + 1] ELSE Operation("")

AddRemoveRestores ==
    \A i \in 1..Len(operations) :
        LET o == operations[i]
            after == StateAfter(i)
            dx == IF o.op = "addColLeft" THEN 1 ELSE 0
            dy == IF o.op = "addRowTop" THEN 1 ELSE 0
        IN  (o.fresh /\ RenderedAfter(i)) =>
                /\ RemoveOf(o.op) # "" =>
                       /\ after.width = NewWidth(o.op, o.width)
                       /\ after.height = NewHeight(o.op, o.height)
                       /\ DOMAIN after.pixelGrid = 0..(after.height - 1)
                       /\ \A y \in 0..(after.height - 1) :
                              /\ DOMAIN after.pixelGrid[y] = 0..(after.width - 1)
                              /\ \A x \in 0..(after.width - 1) :
                                     after.pixelGrid[y][x] =
                                         ColorAt(o.pixelGrid, x - dx, y - dy)
                       /\ \A y \in DOMAIN o.pixelGrid : \A x \in DOMAIN o.pixelGrid[y] :
                              ColorAt(after.pixelGrid, x + dx, y + dy) = o.pixelGrid[y][x]
                /\ (i >= 2 /\ operations[i - 1].fresh /\ o.op = RemoveOf(operations[i - 1].op)) =>
                       /\ after.pixelGrid = operations[i - 1].pixelGrid
                       /\ after.width = operations[i - 1].width
                       /\ after.height = operations[i - 1].height

(***************************************************************************)
(* C38: the initial history entry is pushed exactly once; every draw start *)
(* and every grid-edge operation carried out leads to exactly one push,    *)
(* of its type, whose snapshot is the pixel grid and the dimensions after  *)
(* the operation, after which lastActionType is null again: none is        *)
(* recorded twice and none is lost, also when a draw and a grid change are *)
(* signalled before the same render.                                       *)
(***************************************************************************)
TypeOf(op) == IF op = "draw" THEN "draw" ELSE "grid_change"

EveryOperationPushedOnce ==
    /\ Cardinality({i \in 1..Len(history) : history[i].type = "initial"})
           = (IF isInitializedRef THEN 1 ELSE 0)
    /\ pending = <<>> =>
           /\ lastActionType = ""
           /\ isInitializedRef => Len(history) = 1 + Len(operations)
           /\ \A i \in 1..Len(operations) :
                  i + 1 <= Len(history) =>
                      /\ history[i + 1].type = TypeOf(operations[i].op)
                      /\ RenderedAfter(i) =>
                             /\ history[i + 1].pixelGrid = StateAfter(i).pixelGrid
                             /\ history[i + 1].width = StateAfter(i).width
                             /\ history[i + 1].height = StateAfter(i).height

(***************************************************************************)
(* The keyboard shortcuts of the App (App.jsx lines 1120-1243): the colour *)
(* swap, copy and cut.  The listener is registered again after every       *)
(* render (line 1263), so it works with the state of the latest render.    *)
(***************************************************************************)
MaxPending == 2

\* Key events on the page, and one typed into a text field.
KeyEvents ==
    [key : {"x", "X", "c"}, metaKey : BOOLEAN, ctrlKey : BOOLEAN, tagName : {"DIV"}]
        \cup {[key |-> "x", metaKey |-> TRUE, ctrlKey |-> FALSE, tagName |-> "INPUT"]}

\* Selections of the 2 x 2 grid: a coloured cell, an empty cell, the whole grid, and
\* a rectangle that reaches beyond the left edge.
Selections ==
    { [x1 |-> 0, y1 |-> 0, x2 |-> 0, y2 |-> 0],
      [x1 |-> 1, y1 |-> 1, x2 |-> 1, y2 |-> 1],
      [x1 |-> 0, y1 |-> 0, x2 |-> 1, y2 |-> 1],
      [x1 |-> -1, y1 |-> 1, x2 |-> 0, y2 |-> 1] }

\* event.key.toLowerCase() on the keys of KeyEvents.
Lower(key) == IF key = "X" THEN "x" ELSE key

\* The bounds test of lines 1160-1161, 1198-1199 and 1216.
InGrid(pg, x, y) == y \in DOMAIN pg /\ x \in DOMAIN pg[0]

\* Lines 1149-1175 and 1189-1207: the copy buffer of the selection.
ExtractBlock(pg, sel) ==
    LET width == sel.x2 - sel.x1 + 1
        height == sel.y2 - sel.y1 + 1
    IN  [width |-> width, height |-> height,
         data |-> [y \in 0..(height - 1) |-> [x \in 0..(width - 1) |->
                      IF InGrid(pg, sel.x1 + x, sel.y1 + y)
                      THEN pg[sel.y1 + y][sel.x1 + x] ELSE ""]]]

CutGridWholeColumns(pg, sel) ==
    [y \in DOMAIN pg |-> [x \in DOMAIN pg[y] |->
        IF x \in sel.x1..sel.x2 THEN "" ELSE pg[y][x]]]

\* Lines 1209-1223: the grid with the selected cells set to null.
CutGrid(pg, sel) ==
    [y \in DOMAIN pg |-> [x \in DOMAIN pg[y] |->
        IF y \in sel.y1..sel.y2 /\ x \in sel.x1..sel.x2 /\ InGrid(pg, x, y)
        THEN "" ELSE pg[y][x]]]

\* Lines 1211-1223: the flag `changed`.
CutChanged(pg, sel) ==
    \E y \in sel.y1..sel.y2 : \E x \in sel.x1..sel.x2 :
        InGrid(pg, x, y) /\ pg[y][x] # ""

\* Lines 1132-1141: the colour swap; no modifier is tested.
SwapUpdates(event) ==
    IF Lower(event.key) = "x" /\ Len(colorHistory) >= 2
    THEN <<Update("selectColor", colorHistory[2])>> ELSE <<>>

\* Lines 1144-1181: copy.
CopyUpdates(event) ==
    IF Lower(event.key) = "c" /\ (event.metaKey \/ event.ctrlKey)
       /\ selectionArea # NoSelection
    THEN <<Update("copyBuffer", ExtractBlock(pixelData, selectionArea))>> ELSE <<>>

\* Lines 1184-1242: cut.
IsCut(event, sel) ==
    Lower(event.key) = "x" /\ (event.metaKey \/ event.ctrlKey) /\ sel # NoSelection

CutUpdates(event) ==
    IF IsCut(event, selectionArea)
    THEN <<Update("copyBuffer", ExtractBlock(pixelData, selectionArea))>>
         \o (IF CutChanged(pixelData, selectionArea)
             THEN <<Update("pixelGrid", CutGrid(pixelData, selectionArea))>> ELSE <<>>)
         \o <<Update("selectionArea", NoSelection)>>
    ELSE <<>>

\* Lines 1225-1233: the entry pushed by a cut that changed a cell.
CutPushes(event) ==
    IF IsCut(event, selectionArea) /\ CutChanged(pixelData, selectionArea)
    THEN <<[pixelGrid |-> CutGrid(pixelData, selectionArea),
            width |-> gridWidth, height |-> gridHeight, type |-> "cut"]>>
    ELSE <<>>

\* What a key event found and did: the state of the latest render, the number of
\* history entries, whether updates were still queued, and the calls of selectColor.
Keyed(event) ==
    [key |-> event.key, metaKey |-> event.metaKey, ctrlKey |-> event.ctrlKey,
     tagName |-> event.tagName, before |-> AppState, pushed |-> Len(history),
     fresh |-> pending = <<>>,
     selected |-> IF event.tagName = "INPUT" THEN <<>> ELSE SwapUpdates(event)]

handleKeyDown(event) ==
    /\ isInitializedRef
    /\ Len(pending) < MaxPending
    /\ IF event.tagName = "INPUT"
       THEN UNCHANGED <<pending, history>>
       ELSE /\ pending' = pending \o SwapUpdates(event) \o CopyUpdates(event)
                                  \o CutUpdates(event)
            /\ history' = history \o CutPushes(event)
    /\ keyed' = Keyed(event)
    /\ UNCHANGED operations
    /\ HandlerUnchanged

\* The selection tool of the canvas sets the selection (App.jsx line 1360).
setSelectionArea(sel) ==
    /\ isInitializedRef
    /\ Len(pending) < MaxPending
    /\ pending' = Append(pending, Update("selectionArea", sel))
    /\ keyed' = NoKey
    /\ UNCHANGED <<history, operations>>
    /\ HandlerUnchanged

InitKeys ==
    /\ InitCacheVars
    /\ InitPointerVars
    /\ InitViewVars
    /\ rendererType = "canvas"
    /\ showGrid = FALSE
    /\ bulbSettings = DefaultBulbSettings
    /\ colorHistory = <<"#000000", "#ffffff">>
    /\ importModal = [open |-> FALSE, url |-> ""]
    /\ imported = NoImport
    /\ gridWidth = 2
    /\ gridHeight = 2
    /\ pixelSize = 1
    /\ gridGap = 0
    /\ pixelData = [y \in 0..1 |-> [x \in 0..1 |->
                       IF x = 0 THEN (IF y = 0 THEN "#ff0000" ELSE "#00ff00") ELSE ""]]
    /\ pixelShape = "rectangle"
    /\ cornerRadius = NoCornerRadius
    /\ customShape = NoCustomShape
    /\ glowEnabled = FALSE
    /\ bulbEnabled = FALSE
    /\ elements = <<>>
    /\ gridAfter = pixelData

NextKeys ==
    \/ Render
    \/ \E sel \in Selections : setSelectionArea(sel)
    \/ \E event \in KeyEvents : handleKeyDown(event)

SpecKeys == InitKeys /\ [][NextKeys]_vars

\* The shortcut handled last, when it found nothing queued and has been rendered.
KeyRendered == keyed.key # "" /\ keyed.fresh /\ pending = <<>> /\ keyed.tagName # "INPUT"

KeyWithModifier == keyed.metaKey \/ keyed.ctrlKey

(***************************************************************************)
(* C39: a cut (Cmd/Ctrl+X with a selection) puts the block of the selected *)
(* cells as they were, (x2-x1+1) wide and (y2-y1+1) high with positions    *)
(* outside the grid empty, into the copy buffer, empties every selected    *)
(* cell of the grid, leaves all other cells as they were, pushes a history *)
(* entry exactly when a cell changed, and clears the selection; a copy     *)
(* (Cmd/Ctrl+C) fills the buffer the same way and changes neither the grid *)
(* nor the history.                                                        *)
(***************************************************************************)
BufferHoldsSelection(b) ==
    LET sel == b.selectionArea
        width == sel.x2 - sel.x1 + 1
        height == sel.y2 - sel.y1 + 1
    IN  /\ copyBuffer.width = width
        /\ copyBuffer.height = height
        /\ DOMAIN copyBuffer.data = 0..(height - 1)
        /\ \A y \in 0..(height - 1) :
               /\ DOMAIN copyBuffer.data[y] = 0..(width - 1)
               /\ \A x \in 0..(width - 1) :
                      copyBuffer.data[y][x] = ColorAt(b.pixelGrid, sel.x1 + x, sel.y1 + y)

Selected(sel, x, y) == x \in sel.x1..sel.x2 /\ y \in sel.y1..sel.y2

CutAndCopy ==
    (KeyRendered /\ KeyWithModifier /\ keyed.before.selectionArea # NoSelection) =>
        LET b == keyed.before
            sel == b.selectionArea
            cellChanged == \E y \in DOMAIN b.pixelGrid : \E x \in DOMAIN b.pixelGrid[y] :
                               Selected(sel, x, y) /\ b.pixelGrid[y][x] # ""
        IN  /\ Lower(keyed.key) = "x" =>
                   /\ BufferHoldsSelection(b)
                   /\ DOMAIN pixelData = DOMAIN b.pixelGrid
                   /\ \A y \in DOMAIN pixelData :
                          /\ DOMAIN pixelData[y] = DOMAIN b.pixelGrid[y]
                          /\ \A x \in DOMAIN pixelData[y] :
                                 pixelData[y][x] =
                                     IF Selected(sel, x, y) THEN "" ELSE b.pixelGrid[y][x]
                   /\ gridWidth = b.width /\ gridHeight = b.height
                   /\ Len(history) = keyed.pushed + (IF cellChanged THEN 1 ELSE 0)
                   /\ cellChanged =>
                          history[Len(history)] =
                              [pixelGrid |-> pixelData, width |-> gridWidth,
                               height |-> gridHeight, type |-> "cut"]
                   /\ selectionArea = NoSelection
            /\ Lower(keyed.key) = "c" =>
                   /\ BufferHoldsSelection(b)
                   /\ pixelData = b.pixelGrid
                   /\ gridWidth = b.width /\ gridHeight = b.height
                   /\ Len(history) = keyed.pushed
                   /\ selectionArea = sel

\* A cut of a selection that reaches beyond the grid and holds a coloured cell.
CutBeyondGrid ==
    /\ KeyRendered /\ KeyWithModifier /\ Lower(keyed.key) = "x"
    /\ keyed.before.selectionArea = [x1 |-> -1, y1 |-> 1, x2 |-> 0, y2 |-> 1]
    /\ keyed.before.pixelGrid[1][0] = "#00ff00"
    /\ keyed.before.pixelGrid[0][0] = "#ff0000"
    /\ pixelData[1][0] = "" /\ pixelData[0][0] = "#ff0000"
    /\ copyBuffer.data = [y \in 0..0 |-> [x \in 0..1 |-> IF x = 1 THEN "#00ff00" ELSE ""]]
    /\ Len(history) = keyed.pushed + 1

(***************************************************************************)
(* C40: the cut shortcut (Cmd/Ctrl+X) does not change the active colour or *)
(* the colour history: the colour swap of the plain 'x' key is carried out *)
(* only when no modifier key is held.                                      *)
(***************************************************************************)
CutKeepsColours ==
    (KeyRendered /\ KeyWithModifier /\ Lower(keyed.key) = "x") =>
        /\ keyed.selected = <<>>
        /\ activeColor = keyed.before.activeColor
        /\ colorHistory = keyed.before.colorHistory

=============================================================================
